---- MODULE Spec2Model ----
(***************************************************************************)
(* Model of src/src/utils/formatters.ts: convertToADF (plain text to an    *)
(* ADF document) and parseInlineFormatting (inline marks of one line).     *)
(*                                                                         *)
(* A string is a sequence of one-character strings.  Indices of the        *)
(* source are 0-based; character k of s (0-based) is s[k + 1].             *)
(***************************************************************************)
EXTENDS Integers, Sequences, FiniteSets, TLC

(***************************************************************************)
(* Bounds of the model.                                                    *)
(***************************************************************************)
\* greatest number of source lines of an input text
MaxLines == 3
\* greatest length of a line given to parseInlineFormatting on its own
MaxInlineLen == 6

(***************************************************************************)
(* String primitives of the JavaScript runtime used by the source.         *)
(***************************************************************************)
NL == "\n"
TAB == "\t"
BS == "\\"
\* the backquote character (a TLA+ string cannot hold it) is written BQ
BQ == "BQ"

\* white space as String.prototype.trim and the regular expression \s see it
WhiteSpace == {" ", TAB, NL}

\* IsSpace with the tab forgotten
IsSpaceNoTab(c) == c \in {" ", NL}

IsSpace(c) == c \in WhiteSpace

IsDigit(c) == c \in {"0", "1", "2", "3", "4", "5", "6", "7", "8", "9"}

RECURSIVE TrimStart(_)
TrimStart(s) ==
  IF s # <<>> /\ IsSpace(Head(s)) THEN TrimStart(Tail(s)) ELSE s

RECURSIVE TrimEnd(_)
TrimEnd(s) ==
  IF s # <<>> /\ IsSpace(s[Len(s)]) THEN TrimEnd(SubSeq(s, 1, Len(s) - 1)) ELSE s

\* String.prototype.trim
Trim(s) == TrimEnd(TrimStart(s))

\* String.prototype.startsWith
StartsWith(s, p) == Len(s) >= Len(p) /\ SubSeq(s, 1, Len(p)) = p

\* String.prototype.endsWith
EndsWith(s, p) == Len(s) >= Len(p) /\ SubSeq(s, Len(s) - Len(p) + 1, Len(s)) = p

\* String.prototype.substring(a, b): arguments clamped to [0, length] and
\* swapped when a > b
Substring(s, a, b) ==
  LET ca == IF a < 0 THEN 0 ELSE IF a > Len(s) THEN Len(s) ELSE a
      cb == IF b < 0 THEN 0 ELSE IF b > Len(s) THEN Len(s) ELSE b
      lo == IF ca <= cb THEN ca ELSE cb
      hi == IF ca <= cb THEN cb ELSE ca
  IN  SubSeq(s, lo + 1, hi)

\* String.prototype.indexOf(p, from): the least 0-based index >= from at which
\* p occurs in s, or -1
RECURSIVE IndexOf(_, _, _)
IndexOf(s, p, from) ==
  IF from + Len(p) > Len(s) THEN -1
  ELSE IF SubSeq(s, from + 1, from + Len(p)) = p THEN from
  ELSE IndexOf(s, p, from + 1)

\* String.prototype.split("\n")
RECURSIVE Split(_)
Split(s) ==
  LET k == IndexOf(s, <<NL>>, 0)
  IN  IF k = -1 THEN <<s>>
      ELSE <<SubSeq(s, 1, k)>> \o Split(SubSeq(s, k + 2, Len(s)))

\* Array.prototype.join("\n")
RECURSIVE Join(_)
Join(ls) ==
  IF ls = <<>> THEN <<>>
  ELSE IF Len(ls) = 1 THEN ls[1]
  ELSE ls[1] \o <<NL>> \o Join(Tail(ls))

\* number of leading characters of s that satisfy the test
RECURSIVE RunOfDigits(_)
RunOfDigits(s) ==
  IF s # <<>> /\ IsDigit(Head(s)) THEN 1 + RunOfDigits(Tail(s)) ELSE 0

RECURSIVE RunOfHashes(_)
RunOfHashes(s) ==
  IF s # <<>> /\ Head(s) = "#" THEN 1 + RunOfHashes(Tail(s)) ELSE 0

RECURSIVE RunOfSpaces(_)
RunOfSpaces(s) ==
  IF s # <<>> /\ IsSpace(Head(s)) THEN 1 + RunOfSpaces(Tail(s)) ELSE 0

(***************************************************************************)
(* parseInlineFormatting (formatters.ts:175-260).  The state of its loop   *)
(* is a record [i, currentText, result]; each operator below is one branch *)
(* of the loop body together with the i++ of the for statement.            *)
(***************************************************************************)
\* text[k] || ""
CharAt(text, k) == IF k >= 0 /\ k < Len(text) THEN text[k + 1] ELSE ""

TextNode(t) == [type |-> "text", text |-> t]

MarkedNode(t, m) == [type |-> "text", text |-> t, marks |-> <<[type |-> m]>>]

\* NotEscaped with the test of the preceding character forgotten
NotEscapedAlways(text, i) == TRUE

\* i === 0 || prevChar !== "\\"
NotEscaped(text, i) == i = 0 \/ CharAt(text, i - 1) # BS

IsBoldOpen(text, i) ==
  CharAt(text, i) = "*" /\ CharAt(text, i + 1) = "*" /\ NotEscaped(text, i)

IsItalicOpen(text, i) ==
  CharAt(text, i) = "*" /\ CharAt(text, i + 1) # "*" /\ NotEscaped(text, i)

IsCodeOpen(text, i) == CharAt(text, i) = BQ /\ NotEscaped(text, i)

\* if (currentText) { result.push({ type: "text", text: currentText }); }
Flush(result, currentText) ==
  IF currentText # <<>> THEN Append(result, TextNode(currentText)) ELSE result

\* let end = text.indexOf(delim, start); if (end === -1) end = text.length;
FindEnd(text, delim, start) ==
  LET e == IndexOf(text, delim, start) IN IF e = -1 THEN Len(text) ELSE e

\* BoldStep resuming at the second character of the closing delimiter
BoldStepResumeEarly(text, st) ==
  LET start == st.i + 2
      end == FindEnd(text, <<"*", "*">>, start)
  IN  [i |-> end + 1,
       currentText |-> <<>>,
       result |-> Append(Flush(st.result, st.currentText),
                         MarkedNode(Substring(text, start, end), "strong"))]

BoldStep(text, st) ==
  LET start == st.i + 2
      end == FindEnd(text, <<"*", "*">>, start)
  IN  [i |-> (end + 1) + 1,
       currentText |-> <<>>,
       result |-> Append(Flush(st.result, st.currentText),
                         MarkedNode(Substring(text, start, end), "strong"))]

\* ItalicStep resuming one character too far
ItalicStepSkipsOne(text, st) ==
  LET start == st.i + 1
      end == FindEnd(text, <<"*">>, start)
  IN  [i |-> end + 2,
       currentText |-> <<>>,
       result |-> Append(Flush(st.result, st.currentText),
                         MarkedNode(Substring(text, start, end), "em"))]

ItalicStep(text, st) ==
  LET start == st.i + 1
      end == FindEnd(text, <<"*">>, start)
  IN  [i |-> end + 1,
       currentText |-> <<>>,
       result |-> Append(Flush(st.result, st.currentText),
                         MarkedNode(Substring(text, start, end), "em"))]

CodeStep(text, st) ==
  LET start == st.i + 1
      end == FindEnd(text, <<BQ>>, start)
  IN  [i |-> end + 1,
       currentText |-> <<>>,
       result |-> Append(Flush(st.result, st.currentText),
                         MarkedNode(Substring(text, start, end), "code"))]

PlainStep(text, st) ==
  [i |-> st.i + 1,
   currentText |-> Append(st.currentText, CharAt(text, st.i)),
   result |-> st.result]

\* one iteration of the for loop, branches in source order
InlineStep(text, st) ==
  IF IsBoldOpen(text, st.i) THEN BoldStep(text, st)
  ELSE IF IsItalicOpen(text, st.i) THEN ItalicStep(text, st)
  ELSE IF IsCodeOpen(text, st.i) THEN CodeStep(text, st)
  ELSE PlainStep(text, st)

RECURSIVE InlineLoop(_, _)
InlineLoop(text, st) ==
  IF st.i < Len(text) THEN InlineLoop(text, InlineStep(text, st)) ELSE st

\* the statements after the loop: the last flush and the whole-line fallback
InlineReturn(text, st) ==
  LET r == Flush(st.result, st.currentText)
  IN  IF Len(r) # 0 THEN r ELSE <<TextNode(text)>>

InlineStart == [i |-> 0, currentText |-> <<>>, result |-> <<>>]

parseInlineFormatting(text) == InlineReturn(text, InlineLoop(text, InlineStart))

(***************************************************************************)
(* convertToADF (formatters.ts:11-168): the tests its loop applies to a    *)
(* trimmed line, and the nodes it builds.                                  *)
(***************************************************************************)
Fence == <<BQ, BQ, BQ>>

\* level = 3: the default heading level
DefaultLevel == 3
\* Math.min(match[1].length, 6)
MaxLevel == 6

\* trimmedLine === fence || trimmedLine.startsWith(fence + " ")
IsFence(t) == t = Fence \/ StartsWith(t, Fence \o <<" ">>)

\* trimmedLine.startsWith(fence + " ") ? trimmedLine.substring(4) : "plain"
FenceLanguage(t) ==
  IF StartsWith(t, Fence \o <<" ">>) THEN Substring(t, 4, Len(t))
  ELSE <<"p", "l", "a", "i", "n">>

\* IsBlank with no line taken as blank
IsBlankNever(t) == FALSE

\* trimmedLine === ""
IsBlank(t) == t = <<>>

\* trimmedLine.startsWith("- ") || trimmedLine.startsWith("* ")
IsBullet(t) == StartsWith(t, <<"-", " ">>) \/ StartsWith(t, <<"*", " ">>)

\* the length of the match of /^\d+\.\s/ against t, 0 when there is none
OrderedPrefix(t) ==
  LET d == RunOfDigits(t)
  IN  IF d >= 1 /\ CharAt(t, d) = "." /\ IsSpace(CharAt(t, d + 1)) THEN d + 2 ELSE 0

\* /^\d+\.\s/.test(trimmedLine)
IsOrdered(t) == OrderedPrefix(t) > 0

\* trimmedLine.replace(/^\d+\.\s/, "")
OrderedText(t) == SubSeq(t, OrderedPrefix(t) + 1, Len(t))

\* (trimmedLine.endsWith(":") && nextLine.trim() === "") || trimmedLine.startsWith("#")
IsHeading(t, nextLine) ==
  (EndsWith(t, <<":">>) /\ Trim(nextLine) = <<>>) \/ StartsWith(t, <<"#">>)

\* trimmedLine.match(/^(#+)\s+(.*)/): the match succeeds when the run of '#'
\* is followed by white space; group 1 is the run, group 2 what follows the
\* white space
HashMatches(t) ==
  RunOfHashes(t) >= 1 /\ RunOfSpaces(SubSeq(t, RunOfHashes(t) + 1, Len(t))) >= 1

Min(a, b) == IF a <= b THEN a ELSE b

\* HeadingLevel without the cap of Math.min
HeadingLevelNoCap(t) ==
  IF StartsWith(t, <<"#">>) /\ HashMatches(t) THEN RunOfHashes(t) ELSE DefaultLevel

HeadingLevel(t) ==
  IF StartsWith(t, <<"#">>) /\ HashMatches(t) THEN Min(RunOfHashes(t), MaxLevel)
  ELSE DefaultLevel

HeadingText(t) ==
  IF StartsWith(t, <<"#">>) /\ HashMatches(t)
  THEN LET rest == SubSeq(t, RunOfHashes(t) + 1, Len(t))
       IN  SubSeq(rest, RunOfSpaces(rest) + 1, Len(rest))
  ELSE t

CodeBlockNode(language, txt) ==
  [type |-> "codeBlock", attrs |-> [language |-> language],
   content |-> <<TextNode(txt)>>]

ListNode(kind) == [type |-> kind, content |-> <<>>]

ListItemNode(listItem) ==
  [type |-> "listItem",
   content |-> <<[type |-> "paragraph", content |-> <<TextNode(listItem)>>]>>]

HeadingNode(level, txt) ==
  [type |-> "heading", attrs |-> [level |-> level], content |-> <<TextNode(txt)>>]

ParagraphNode(textContent) == [type |-> "paragraph", content |-> textContent]

Document(content) == [version |-> 1, type |-> "doc", content |-> content]

\* StartsNewList testing only whether a list is open
StartsNewListWhenNone(currentListType, kind) == currentListType = "null"

\* currentListType !== kind: a new list block is started
StartsNewList(currentListType, kind) == currentListType # kind

(***************************************************************************)
(* The inputs.  A text is the join of at most MaxLines lines of LinePool;  *)
(* a line given to parseInlineFormatting on its own is any string of at    *)
(* most MaxInlineLen characters of InlineAlphabet.                         *)
(***************************************************************************)
LinePool ==
  { <<>>,
    <<TAB>>,
    <<"-", " ", "a">>,
    <<" ", "*", " ", "c", " ">>,
    <<"1", ".", " ", "b">>,
    <<"#", " ", "H">>,
    <<"#", "#", " ", " ", "H">>,
    <<"#", "#", "#", "#", "#", "#", "#", " ", "H">>,
    <<"T", ":">>,
    <<"p">>,
    Fence,
    Fence \o <<" ", "p", "y">>,
    Fence \o <<"p", "y">> }

\* the concatenation of a sequence of sequences
RECURSIVE Flatten(_)
Flatten(ss) == IF ss = <<>> THEN <<>> ELSE Head(ss) \o Flatten(Tail(ss))

SeqsUpTo(S, n) == UNION { [1..k -> S] : k \in 0..n }

Texts == { Join(ls) : ls \in SeqsUpTo(LinePool, MaxLines) \ {<<>>} }

InlineAlphabet == {"*", BQ, BS, "a", "b"}

InlineTexts == SeqsUpTo(InlineAlphabet, MaxInlineLen)

(***************************************************************************)
(* State.  text .. doc are the parameter, the locals and the return value  *)
(* of one call of convertToADF; currentList is the index in content of the *)
(* list object the source's reference currentList points to (0: null).     *)
(* origin[k] records the source line numbers (1-based) at which the block  *)
(* content[k], or each item of the list content[k], was pushed.            *)
(* inlText .. inlOut are the same for one call of parseInlineFormatting.   *)
(***************************************************************************)
VARIABLES text, pc, lines, i, content, currentList, currentListType,
          codeBlockContent, inCodeBlock, doc, origin,
          inlText, inlPc, inlSt, inlOut

convVars == <<text, pc, lines, i, content, currentList, currentListType,
              codeBlockContent, inCodeBlock, doc, origin>>

inlVars == <<inlText, inlPc, inlSt, inlOut>>

(***************************************************************************)
(* query .. jqlOut are the parameters, the locals and the return value of  *)
(* one call of formatJQL: params is Object.entries(params), the entries    *)
(* [key, value] in iteration order, and entryNo the number of entries the  *)
(* for loop has taken.  LOG_LEVEL is the constant of that name of the       *)
(* server module, console the lines console.log has printed and calls the  *)
(* history of the calls of log: the message and the level of each.         *)
(***************************************************************************)
VARIABLES query, params, formattedQuery, formattedValue, entryNo, jqlPc, jqlOut,
          LOG_LEVEL, console, calls

jqlVars == <<query, params, formattedQuery, formattedValue, entryNo, jqlPc, jqlOut>>

logVars == <<LOG_LEVEL, console, calls>>

(***************************************************************************)
(* One call of JiraService.getIssues: service is the file of the class     *)
(* ("part_000" or "part_001"), args the argument object, finalJql the      *)
(* local of that name, searched the arguments searchJira was called with   *)
(* (none yet: the empty sequence), giPc the position and giOut the         *)
(* outcome of the call.  An optional value is a sequence: empty when       *)
(* undefined, of the one value otherwise.                                  *)
(***************************************************************************)
VARIABLES service, args, finalJql, searched, giPc, giOut

svcVars == <<service, args, finalJql, searched, giPc, giOut>>

(***************************************************************************)
(* One call of JiraService.bulkUpdateIssues: issueKeys, assignee and       *)
(* status are its arguments (the last two: given or not), accountId,       *)
(* successes and failures its locals, keyNo the number of keys the for     *)
(* loop has finished, bulkPc the position (within the loop body: the       *)
(* request that is awaited) and bulkOut the returned object.  requests is  *)
(* the history of the requests made to Jira and their outcomes.            *)
(***************************************************************************)
VARIABLES issueKeys, assignee, status, accountId, successes, failures, keyNo,
          bulkPc, bulkOut, requests

\* an optional value that is absent
undefined == <<>>

bulkVars == <<issueKeys, assignee, status, accountId, successes, failures, keyNo,
              bulkPc, bulkOut, requests>>

vars == <<convVars, inlVars, jqlVars, logVars, svcVars, bulkVars>>

\* the variables a call of one function leaves alone
notConv == <<inlVars, jqlVars, logVars, svcVars, bulkVars>>

notInl == <<convVars, jqlVars, logVars, svcVars, bulkVars>>

notJql == <<convVars, inlVars, logVars, svcVars, bulkVars>>

notLog == <<convVars, inlVars, jqlVars, svcVars, bulkVars>>

notSvc == <<convVars, inlVars, jqlVars, logVars, bulkVars>>

notBulk == <<convVars, inlVars, jqlVars, logVars, svcVars>>

\* the arguments of a call of bulkUpdateIssues, nothing done yet
BulkIdle(p, ks, a, st) ==
  /\ issueKeys = ks
  /\ assignee = a
  /\ status = st
  /\ accountId = undefined
  /\ successes = <<>>
  /\ failures = <<>>
  /\ keyNo = 0
  /\ bulkPc = p
  /\ bulkOut = [message |-> <<>>, successes |-> <<>>, failures |-> <<>>]
  /\ requests = <<>>

NoArgs == [projectKey |-> undefined, jql |-> undefined,
           maxResults |-> undefined, fields |-> undefined]

\* no call of the service is running
SvcIdle ==
  /\ service = "none"
  /\ args = NoArgs
  /\ finalJql = <<>>
  /\ searched = <<>>
  /\ giPc = "idle"
  /\ giOut = [kind |-> "none"]

NoDoc == [version |-> 0, type |-> "none", content |-> <<>>]

ConvIdle(p, t) ==
  /\ text = t
  /\ pc = p
  /\ lines = <<>>
  /\ i = 0
  /\ content = <<>>
  /\ currentList = 0
  /\ currentListType = "null"
  /\ codeBlockContent = <<>>
  /\ inCodeBlock = FALSE
  /\ doc = NoDoc
  /\ origin = <<>>

InlIdle(p, t) ==
  /\ inlText = t
  /\ inlPc = p
  /\ inlSt = InlineStart
  /\ inlOut = <<>>

JqlIdle(p, q, ps) ==
  /\ query = q
  /\ params = ps
  /\ formattedQuery = <<>>
  /\ formattedValue = <<>>
  /\ entryNo = 0
  /\ jqlPc = p
  /\ jqlOut = <<>>

\* process.env.LOG_LEVEL || "info": an unset or empty variable gives "info"
EnvLogLevel(env) == IF env \in {"unset", ""} THEN "info" ELSE env

\* the server module is loaded with the environment's LOG_LEVEL and log has
\* not been called
LogIdle(env) ==
  /\ LOG_LEVEL = EnvLogLevel(env)
  /\ console = <<>>
  /\ calls = <<>>

\* a call convertToADF(text) is about to run
Init ==
  /\ \E t \in Texts : ConvIdle("start", t)
  /\ InlIdle("idle", <<>>)
  /\ JqlIdle("idle", <<>>, <<>>)
  /\ LogIdle("unset")
  /\ SvcIdle
  /\ BulkIdle("idle", <<>>, FALSE, FALSE)

(***************************************************************************)
(* convertToADF, one action per path through the loop body.                *)
(***************************************************************************)
line == lines[i + 1]

\* nextLine reading the current line
nextLineOffByOne == lines[i + 1]

\* lines[i + 1] || ""
nextLine == IF i + 2 <= Len(lines) THEN lines[i + 2] ELSE <<>>

trimmedLine == Trim(line)

\* !text || !text.trim()
IsEmptyText(t) == t = <<>> \/ Trim(t) = <<>>

InLoop == pc = "loop" /\ i < Len(lines)

EarlyReturn ==
  /\ pc = "start"
  /\ IsEmptyText(text)
  /\ doc' = Document(<<>>)
  /\ pc' = "done"
  /\ UNCHANGED <<text, lines, i, content, currentList, currentListType,
                 codeBlockContent, inCodeBlock, origin>>
  /\ UNCHANGED notConv

Start ==
  /\ pc = "start"
  /\ ~IsEmptyText(text)
  /\ lines' = Split(text)
  /\ content' = <<>>
  /\ currentList' = 0
  /\ currentListType' = "null"
  /\ codeBlockContent' = <<>>
  /\ inCodeBlock' = FALSE
  /\ i' = 0
  /\ pc' = "loop"
  /\ UNCHANGED <<text, doc, origin>>
  /\ UNCHANGED notConv

FenceOpen ==
  /\ InLoop
  /\ IsFence(trimmedLine)
  /\ ~inCodeBlock
  /\ inCodeBlock' = TRUE
  /\ codeBlockContent' = <<>>
  /\ i' = i + 1
  /\ UNCHANGED <<text, pc, lines, content, currentList, currentListType, doc, origin>>
  /\ UNCHANGED notConv

FenceClose ==
  /\ InLoop
  /\ IsFence(trimmedLine)
  /\ inCodeBlock
  /\ inCodeBlock' = FALSE
  /\ content' = Append(content,
                       CodeBlockNode(FenceLanguage(trimmedLine), Join(codeBlockContent)))
  /\ origin' = Append(origin, <<i + 1>>)
  /\ i' = i + 1
  /\ UNCHANGED <<text, pc, lines, currentList, currentListType, codeBlockContent, doc>>
  /\ UNCHANGED notConv

\* CodeLine pushing the trimmed line
CodeLineTrimmed ==
  /\ InLoop
  /\ ~IsFence(trimmedLine)
  /\ inCodeBlock
  /\ codeBlockContent' = Append(codeBlockContent, trimmedLine)
  /\ i' = i + 1
  /\ UNCHANGED <<text, pc, lines, content, currentList, currentListType,
                 inCodeBlock, doc, origin>>
  /\ UNCHANGED notConv

CodeLine ==
  /\ InLoop
  /\ ~IsFence(trimmedLine)
  /\ inCodeBlock
  /\ codeBlockContent' = Append(codeBlockContent, line)
  /\ i' = i + 1
  /\ UNCHANGED <<text, pc, lines, content, currentList, currentListType,
                 inCodeBlock, doc, origin>>
  /\ UNCHANGED notConv

\* none of the code block paths was taken
Outside == InLoop /\ ~IsFence(trimmedLine) /\ ~inCodeBlock

\* the blank line path with only the list reference reset
BlankLineKeepsType ==
  /\ Outside
  /\ IsBlank(trimmedLine)
  /\ currentList' = 0
  /\ i' = i + 1
  /\ UNCHANGED <<text, pc, lines, content, currentListType, codeBlockContent,
                 inCodeBlock, doc, origin>>
  /\ UNCHANGED notConv

BlankLine ==
  /\ Outside
  /\ IsBlank(trimmedLine)
  /\ currentList' = 0
  /\ currentListType' = "null"
  /\ i' = i + 1
  /\ UNCHANGED <<text, pc, lines, content, codeBlockContent, inCodeBlock, doc, origin>>
  /\ UNCHANGED notConv

\* the list item paths: kind is "bullet" or "ordered", listItem the item's text
PushItem(kind, listItem) ==
  LET fresh == StartsNewList(currentListType, kind)
      withList == IF fresh THEN Append(content, ListNode(kind \o "List")) ELSE content
      withOrigin == IF fresh THEN Append(origin, <<>>) ELSE origin
      target == IF fresh THEN Len(content) + 1 ELSE currentList
  IN  IF target = 0
      THEN \* currentList.content of null: a TypeError leaves the function
           /\ pc' = "threw"
           /\ UNCHANGED <<content, origin, currentList, currentListType, i>>
      ELSE /\ content' = [withList EXCEPT ![target].content =
                            Append(@, ListItemNode(listItem))]
           /\ origin' = [withOrigin EXCEPT ![target] = Append(@, i + 1)]
           /\ currentList' = target
           /\ currentListType' = kind
           /\ i' = i + 1
           /\ pc' = pc

BulletItem ==
  /\ Outside
  /\ ~IsBlank(trimmedLine)
  /\ IsBullet(trimmedLine)
  /\ PushItem("bullet", Substring(trimmedLine, 2, Len(trimmedLine)))
  /\ UNCHANGED <<text, lines, codeBlockContent, inCodeBlock, doc>>
  /\ UNCHANGED notConv

OrderedItem ==
  /\ Outside
  /\ ~IsBlank(trimmedLine)
  /\ ~IsBullet(trimmedLine)
  /\ IsOrdered(trimmedLine)
  /\ PushItem("ordered", OrderedText(trimmedLine))
  /\ UNCHANGED <<text, lines, codeBlockContent, inCodeBlock, doc>>
  /\ UNCHANGED notConv

\* none of the earlier paths was taken
Plain ==
  Outside /\ ~IsBlank(trimmedLine) /\ ~IsBullet(trimmedLine) /\ ~IsOrdered(trimmedLine)

Heading ==
  /\ Plain
  /\ IsHeading(trimmedLine, nextLine)
  /\ content' = Append(content,
                       HeadingNode(HeadingLevel(trimmedLine), HeadingText(trimmedLine)))
  /\ origin' = Append(origin, <<i + 1>>)
  /\ i' = i + 1
  /\ UNCHANGED <<text, pc, lines, currentList, currentListType,
                 codeBlockContent, inCodeBlock, doc>>
  /\ UNCHANGED notConv

\* the paragraph path without the reset of the open list
ParagraphKeepsList ==
  /\ Plain
  /\ ~IsHeading(trimmedLine, nextLine)
  /\ content' = Append(content, ParagraphNode(parseInlineFormatting(trimmedLine)))
  /\ origin' = Append(origin, <<i + 1>>)
  /\ i' = i + 1
  /\ UNCHANGED <<text, pc, lines, currentList, currentListType, codeBlockContent,
                 inCodeBlock, doc>>
  /\ UNCHANGED notConv

Paragraph ==
  /\ Plain
  /\ ~IsHeading(trimmedLine, nextLine)
  /\ currentList' = 0
  /\ currentListType' = "null"
  /\ content' = Append(content, ParagraphNode(parseInlineFormatting(trimmedLine)))
  /\ origin' = Append(origin, <<i + 1>>)
  /\ i' = i + 1
  /\ UNCHANGED <<text, pc, lines, codeBlockContent, inCodeBlock, doc>>
  /\ UNCHANGED notConv

Return ==
  /\ pc = "loop"
  /\ i >= Len(lines)
  /\ doc' = Document(content)
  /\ pc' = "done"
  /\ UNCHANGED <<text, lines, i, content, currentList, currentListType,
                 codeBlockContent, inCodeBlock, origin>>
  /\ UNCHANGED notConv

Next ==
  \/ EarlyReturn
  \/ Start
  \/ FenceOpen
  \/ FenceClose
  \/ CodeLine
  \/ BlankLine
  \/ BulletItem
  \/ OrderedItem
  \/ Heading
  \/ Paragraph
  \/ Return

Spec == Init /\ [][Next]_vars

(***************************************************************************)
(* convertToADF on lines that carry inline marks, and on lines that begin  *)
(* with '#' without being a markdown heading.                              *)
(***************************************************************************)
MarkedLinePool ==
  { <<>>,
    <<"-", " ", "a">>,
    <<"-", " ", "*", "a", "*">>,
    <<"1", ".", " ", "*", "*", "b", "*", "*">>,
    <<"#", " ", "*", "H", "*">>,
    <<"#", "t">>,
    <<"#", "#", "#", "#", "#", "#", "#", " ", "H">>,
    <<BQ, "T", BQ, ":">>,
    <<"p">>,
    <<"*", "p", "*", " ", "q">>,
    Fence }

MarkedTexts == { Join(ls) : ls \in SeqsUpTo(MarkedLinePool, MaxLines) \ {<<>>} }

InitMarked ==
  /\ \E t \in MarkedTexts : ConvIdle("start", t)
  /\ InlIdle("idle", <<>>)
  /\ JqlIdle("idle", <<>>, <<>>)
  /\ LogIdle("unset")
  /\ SvcIdle
  /\ BulkIdle("idle", <<>>, FALSE, FALSE)

SpecMarked == InitMarked /\ [][Next]_vars

(***************************************************************************)
(* parseInlineFormatting as a state machine: one action per path through   *)
(* its loop body, and one for the statements after the loop.               *)
(***************************************************************************)
\* a call parseInlineFormatting(inlText) is about to run
InitInline ==
  /\ \E t \in InlineTexts : InlIdle("loop", t)
  /\ ConvIdle("idle", <<>>)
  /\ JqlIdle("idle", <<>>, <<>>)
  /\ LogIdle("unset")
  /\ SvcIdle
  /\ BulkIdle("idle", <<>>, FALSE, FALSE)

InlLoop == inlPc = "loop" /\ inlSt.i < Len(inlText)

InlBold ==
  /\ InlLoop
  /\ IsBoldOpen(inlText, inlSt.i)
  /\ inlSt' = BoldStep(inlText, inlSt)
  /\ UNCHANGED <<inlText, inlPc, inlOut>>
  /\ UNCHANGED notInl

InlItalic ==
  /\ InlLoop
  /\ ~IsBoldOpen(inlText, inlSt.i)
  /\ IsItalicOpen(inlText, inlSt.i)
  /\ inlSt' = ItalicStep(inlText, inlSt)
  /\ UNCHANGED <<inlText, inlPc, inlOut>>
  /\ UNCHANGED notInl

InlCode ==
  /\ InlLoop
  /\ ~IsBoldOpen(inlText, inlSt.i)
  /\ ~IsItalicOpen(inlText, inlSt.i)
  /\ IsCodeOpen(inlText, inlSt.i)
  /\ inlSt' = CodeStep(inlText, inlSt)
  /\ UNCHANGED <<inlText, inlPc, inlOut>>
  /\ UNCHANGED notInl

InlPlain ==
  /\ InlLoop
  /\ ~IsBoldOpen(inlText, inlSt.i)
  /\ ~IsItalicOpen(inlText, inlSt.i)
  /\ ~IsCodeOpen(inlText, inlSt.i)
  /\ inlSt' = PlainStep(inlText, inlSt)
  /\ UNCHANGED <<inlText, inlPc, inlOut>>
  /\ UNCHANGED notInl

InlReturn ==
  /\ inlPc = "loop"
  /\ inlSt.i >= Len(inlText)
  /\ inlOut' = InlineReturn(inlText, inlSt)
  /\ inlPc' = "done"
  /\ UNCHANGED <<inlText, inlSt>>
  /\ UNCHANGED notInl

NextInline ==
  \/ InlBold
  \/ InlItalic
  \/ InlCode
  \/ InlPlain
  \/ InlReturn

SpecInline == InitInline /\ [][NextInline]_vars

(***************************************************************************)
(* formatJQL (formatters.ts:268-296).  A value is a record [kind, str,     *)
(* items]: a string (kind "string", str its characters), an array (kind    *)
(* "array", items its elements) or another scalar such as a number or a    *)
(* boolean (kind "scalar", str the characters String(value) gives).        *)
(***************************************************************************)
\* greatest number of pieces (placeholder tokens, literal characters) of a query
MaxPieces == 3

StringValue(cs) == [kind |-> "string", str |-> cs, items |-> <<>>]

ScalarValue(cs) == [kind |-> "scalar", str |-> cs, items |-> <<>>]

ArrayValue(vs) == [kind |-> "array", str |-> <<>>, items |-> vs]

DQ == "\""

\* the template literal that builds the placeholder of a key
PlaceholderPrefixOnly(key) == <<"$", "{">>

Placeholder(key) == <<"$", "{">> \o key \o <<"}">>

\* /[ "'\\]/.test(v)
NeedsQuotes(v) == \E k \in 1..Len(v) : v[k] \in {" ", DQ, "'", BS}

\* v.replace(/"/g, '\\"')
RECURSIVE EscapeQuotes(_)
EscapeQuotes(v) ==
  IF v = <<>> THEN <<>>
  ELSE (IF Head(v) = DQ THEN <<BS, DQ>> ELSE <<Head(v)>>) \o EscapeQuotes(Tail(v))

\* the quoted form: a double quote, the escaped value, a double quote
Quoted(v) == <<DQ>> \o EscapeQuotes(v) \o <<DQ>>

\* String(value) of a string or another scalar
StringOf(value) == value.str

\* the callback of value.map at lines 282-286
FormatElement(v) ==
  IF v.kind = "string" /\ NeedsQuotes(v.str) THEN Quoted(v.str) ELSE StringOf(v)

\* Array.prototype.join(", ")
RECURSIVE JoinComma(_)
JoinComma(parts) ==
  IF parts = <<>> THEN <<>>
  ELSE IF Len(parts) = 1 THEN parts[1]
  ELSE parts[1] \o <<",", " ">> \o JoinComma(Tail(parts))

\* lines 277-289: the text put in place of the placeholder
FormatValue(value) ==
  IF value.kind = "string"
  THEN (IF NeedsQuotes(value.str) THEN Quoted(value.str) ELSE value.str)
  ELSE IF value.kind = "array"
  THEN JoinComma([k \in 1..Len(value.items) |-> FormatElement(value.items[k])])
  ELSE StringOf(value)

\* GetSubstitution of String.prototype.replace for a string pattern, which
\* has no captures: in the replacement text "$$" stands for "$", "$&" for
\* the matched text, "$" and a backquote for the text before the match, "$'"
\* for the text after it; any other "$" stands for itself
RECURSIVE GetSubstitution(_, _, _, _)
GetSubstitution(matched, str, position, replacement) ==
  IF replacement = <<>> THEN <<>>
  ELSE IF Head(replacement) = "$" /\ Len(replacement) >= 2
            /\ replacement[2] \in {"$", "&", BQ, "'"}
  THEN (IF replacement[2] = "$" THEN <<"$">>
        ELSE IF replacement[2] = "&" THEN matched
        ELSE IF replacement[2] = BQ THEN SubSeq(str, 1, position)
        ELSE SubSeq(str, position + Len(matched) + 1, Len(str)))
       \o GetSubstitution(matched, str, position, Tail(Tail(replacement)))
  ELSE <<Head(replacement)>>
       \o GetSubstitution(matched, str, position, Tail(replacement))

\* String.prototype.replace(pattern, replacement) with a string pattern:
\* the first occurrence only
Replace(str, pattern, replacement) ==
  LET position == IndexOf(str, pattern, 0)
  IN  IF position = -1 THEN str
      ELSE SubSeq(str, 1, position)
           \o GetSubstitution(pattern, str, position, replacement)
           \o SubSeq(str, position + Len(pattern) + 1, Len(str))

\* String.prototype.includes
Includes(str, pattern) == IndexOf(str, pattern, 0) # -1

(***************************************************************************)
(* The inputs of formatJQL: a query is the join of at most MaxPieces       *)
(* pieces, the mapping has at most one entry for each key of Keys, in      *)
(* either order, with values of ValuePool.                                 *)
(***************************************************************************)
Keys == {<<"k">>, <<"j">>}

Pieces == {Placeholder(<<"k">>), Placeholder(<<"j">>), Placeholder(<<"u">>), <<"a">>}

Queries == { Flatten(ps) : ps \in SeqsUpTo(Pieces, MaxPieces) }

StringPool ==
  { <<"a">>,
    <<"a", " ", "b">>,
    <<"a", DQ, "b">>,
    <<"a", "'">>,
    <<"a", BS>>,
    <<BS, DQ>>,
    <<"$", "&">>,
    <<"$", "$">>,
    <<"$", "'">>,
    <<" ", "$", BQ>>,
    Placeholder(<<"j">>) }

ValuePool ==
  { StringValue(v) : v \in StringPool }
  \cup { ScalarValue(<<"5">>), ScalarValue(<<"t", "r", "u", "e">>),
         ArrayValue(<<StringValue(<<"a">>), StringValue(<<"a", " ", "b">>)>>),
         ArrayValue(<<ScalarValue(<<"5">>), StringValue(<<"a", DQ, "b">>)>>),
         ArrayValue(<<StringValue(<<"$", "&">>)>>),
         ArrayValue(<<>>) }

Entry(key, value) == [key |-> key, value |-> value]

ParamsPool ==
  { <<>> }
  \cup { <<Entry(k1, v1)>> : k1 \in Keys, v1 \in ValuePool }
  \cup { <<Entry(e[1], e[3]), Entry(e[2], e[4])>> :
           e \in {x \in Keys \X Keys \X ValuePool \X ValuePool : x[1] # x[2]} }

(***************************************************************************)
(* formatJQL as a state machine: one action per path through the body of   *)
(* its for loop.                                                           *)
(***************************************************************************)
\* a call formatJQL(query, params) is about to run
InitJql ==
  /\ \E q \in Queries, ps \in ParamsPool : JqlIdle("start", q, ps)
  /\ ConvIdle("idle", <<>>)
  /\ InlIdle("idle", <<>>)
  /\ LogIdle("unset")
  /\ SvcIdle
  /\ BulkIdle("idle", <<>>, FALSE, FALSE)

\* let formattedQuery = query
JqlStart ==
  /\ jqlPc = "start"
  /\ formattedQuery' = query
  /\ jqlPc' = "loop"
  /\ UNCHANGED <<query, params, formattedValue, entryNo, jqlOut>>
  /\ UNCHANGED notJql

JqlInLoop == jqlPc = "loop" /\ entryNo < Len(params)

key == params[entryNo + 1].key

value == params[entryNo + 1].value

placeholder == Placeholder(key)

\* the substitution made in the query as it was passed, not as rewritten
JqlSubstituteInTemplate ==
  /\ JqlInLoop
  /\ Includes(formattedQuery, placeholder)
  /\ formattedValue' = FormatValue(value)
  /\ formattedQuery' = Replace(query, placeholder, FormatValue(value))
  /\ entryNo' = entryNo + 1
  /\ UNCHANGED <<query, params, jqlPc, jqlOut>>
  /\ UNCHANGED notJql

\* the placeholder occurs: the value is formatted and put in its place
JqlSubstitute ==
  /\ JqlInLoop
  /\ Includes(formattedQuery, placeholder)
  /\ formattedValue' = FormatValue(value)
  /\ formattedQuery' = Replace(formattedQuery, placeholder, FormatValue(value))
  /\ entryNo' = entryNo + 1
  /\ UNCHANGED <<query, params, jqlPc, jqlOut>>
  /\ UNCHANGED notJql

\* the placeholder does not occur
JqlSkip ==
  /\ JqlInLoop
  /\ ~Includes(formattedQuery, placeholder)
  /\ entryNo' = entryNo + 1
  /\ UNCHANGED <<query, params, formattedQuery, formattedValue, jqlPc, jqlOut>>
  /\ UNCHANGED notJql

JqlReturn ==
  /\ jqlPc = "loop"
  /\ entryNo >= Len(params)
  /\ jqlOut' = formattedQuery
  /\ jqlPc' = "done"
  /\ UNCHANGED <<query, params, formattedQuery, formattedValue, entryNo>>
  /\ UNCHANGED notJql

NextJql ==
  \/ JqlStart
  \/ JqlSubstitute
  \/ JqlSkip
  \/ JqlReturn

SpecJql == InitJql /\ [][NextJql]_vars

(***************************************************************************)
(* The log function of the server (part_002:18-40).  Level names are       *)
(* strings; a printed line is the sequence of its parts.                   *)
(***************************************************************************)
\* greatest number of calls of log
MaxLogCalls == 2

levels == [debug |-> 0, info |-> 1, warn |-> 2, error |-> 3]

\* levels[name] || 1: a name that is no key of levels gives undefined, and
\* undefined and 0 are both falsy
LevelOr1(name) ==
  IF name \in DOMAIN levels /\ levels[name] # 0 THEN levels[name] ELSE 1

\* level.toUpperCase()
toUpperCase(level) ==
  CASE level = "debug" -> "DEBUG"
    [] level = "info" -> "INFO"
    [] level = "warn" -> "WARN"
    [] level = "error" -> "ERROR"
    [] level = "trace" -> "TRACE"
    [] OTHER -> level

\* the line console.log prints: the prefix, a space, the message
LogLine(message, level) == <<"[", toUpperCase(level), "]", " ", message>>

\* the values of the environment variable: unset, empty, the four levels and
\* a name that is no level
EnvPool == {"unset", "", "debug", "info", "warn", "error", "verbose"}

\* the level argument of a call: the four levels, a name that is no level,
\* or none (the parameter's default applies)
LevelArgs == {"debug", "info", "warn", "error", "trace", "omitted"}

Messages == {"m"}

InitLog ==
  /\ \E env \in EnvPool : LogIdle(env)
  /\ ConvIdle("idle", <<>>)
  /\ InlIdle("idle", <<>>)
  /\ JqlIdle("idle", <<>>, <<>>)
  /\ SvcIdle
  /\ BulkIdle("idle", <<>>, FALSE, FALSE)

\* one call log(message, level)
Log(message, arg) ==
  LET level == IF arg = "omitted" THEN "info" ELSE arg
      configuredLevel == LevelOr1(LOG_LEVEL)
      messageLevel == LevelOr1(level)
  IN  /\ Len(calls) < MaxLogCalls
      /\ calls' = Append(calls, [message |-> message, level |-> level])
      /\ console' = IF messageLevel >= configuredLevel
                    THEN Append(console, LogLine(message, level))
                    ELSE console
      /\ UNCHANGED LOG_LEVEL
      /\ UNCHANGED notLog

NextLog == \E message \in Messages, arg \in LevelArgs : Log(message, arg)

SpecLog == InitLog /\ [][NextLog]_vars

(***************************************************************************)
(* The two core functions together: a call of convertToADF or a call of    *)
(* formatJQL, on any of the inputs above.                                  *)
(***************************************************************************)
InitCore == Init \/ InitJql

NextCore == Next \/ NextJql

SpecCore == InitCore /\ [][NextCore]_vars

(***************************************************************************)
(* formatJQL as a function: the for loop of lines 271-293 over the         *)
(* entries, as the actions above take it.                                  *)
(***************************************************************************)
RECURSIVE formatJQL(_, _)
formatJQL(fq, entries) ==
  IF entries = <<>> THEN fq
  ELSE LET token == Placeholder(Head(entries).key)
           next == IF Includes(fq, token)
                   THEN Replace(fq, token, FormatValue(Head(entries).value))
                   ELSE fq
       IN  formatJQL(next, Tail(entries))

(***************************************************************************)
(* JiraService.getIssues, in its two files: part_000:185-209 builds the    *)
(* query with formatJQL, part_001:169-204 with template literals.          *)
(***************************************************************************)
\* the argument objects: each property absent or present
ArgsPool ==
  [projectKey : {undefined, <<<<"P">>>>, <<<<"A", " ", "B">>>>},
   jql : {undefined, <<<<>>>>, <<<<"a">>>>, <<<<"a", " ", "=", " ", "1">>>>},
   maxResults : {undefined, <<10>>},
   fields : {undefined, <<<<"summary">>>>}]

InitSvc ==
  /\ \E sv \in {"part_000", "part_001"}, a \in ArgsPool :
       /\ service = sv
       /\ args = a
  /\ finalJql = <<>>
  /\ searched = <<>>
  /\ giPc = "start"
  /\ giOut = [kind |-> "none"]
  /\ BulkIdle("idle", <<>>, FALSE, FALSE)
  /\ ConvIdle("idle", <<>>)
  /\ InlIdle("idle", <<>>)
  /\ JqlIdle("idle", <<>>, <<>>)
  /\ LogIdle("unset")

\* part_000:187-197: the query is built with formatJQL and searchJira called
BuildJql000 ==
  LET projectEq == <<"p", "r", "o", "j", "e", "c", "t", " ", "=", " ">>
      and == <<" ", "A", "N", "D", " ">>
      name == <<"p", "r", "o", "j", "e", "c", "t", "K", "e", "y">>
      baseJql == IF args.jql = undefined THEN <<>> ELSE args.jql[1]
      entry == Entry(name, IF args.projectKey = undefined
                           THEN ScalarValue(<<"u", "n", "d", "e", "f", "i", "n", "e", "d">>)
                           ELSE StringValue(args.projectKey[1]))
      built == IF baseJql # <<>>
               THEN formatJQL(projectEq \o Placeholder(name) \o and \o baseJql, <<entry>>)
               ELSE formatJQL(projectEq \o Placeholder(name), <<entry>>)
  IN  /\ giPc = "start"
      /\ service = "part_000"
      /\ finalJql' = built
      /\ searched' = <<[jql |-> built,
                        maxResults |-> IF args.maxResults = undefined
                                       THEN 50 ELSE args.maxResults[1],
                        fields |-> IF args.fields = undefined
                                   THEN "defaultFields" ELSE args.fields[1],
                        expand |-> undefined]>>
      /\ giPc' = "searching"
      /\ UNCHANGED <<service, args, giOut>>
      /\ UNCHANGED notSvc

\* part_001:171-192: the query is built by cases and searchJira called, or
\* the error of the last case is thrown into the catch clause
BuildJql001 ==
  LET projectEq == <<"p", "r", "o", "j", "e", "c", "t", " ", "=", " ">>
      projectKey == IF args.projectKey = undefined THEN <<>> ELSE args.projectKey[1]
      jql == IF args.jql = undefined THEN <<>> ELSE args.jql[1]
      quotedKey == <<DQ>> \o projectKey \o <<DQ>>
      built == IF projectKey # <<>> /\ jql # <<>>
               THEN projectEq \o quotedKey \o <<" ", "A", "N", "D", " ", "(">> \o jql \o <<")">>
               ELSE IF projectKey # <<>> THEN projectEq \o quotedKey
               ELSE jql
  IN  /\ giPc = "start"
      /\ service = "part_001"
      /\ IF projectKey = <<>> /\ jql = <<>>
         THEN /\ giOut' = [kind |-> "Failed to get issues"]
              /\ giPc' = "threw"
              /\ UNCHANGED <<finalJql, searched>>
         ELSE /\ finalJql' = built
              /\ searched' = <<[jql |-> built,
                                maxResults |-> IF args.maxResults = undefined
                                               THEN 50 ELSE args.maxResults[1],
                                fields |-> IF args.fields = undefined
                                           THEN "defaultFields" ELSE args.fields[1],
                                expand |-> <<"names", "schema">>]>>
              /\ giPc' = "searching"
              /\ UNCHANGED giOut
      /\ UNCHANGED <<service, args>>
      /\ UNCHANGED notSvc

\* searchJira answers: response.issues || []
SearchReturns(hasIssues) ==
  /\ giPc = "searching"
  /\ giOut' = [kind |-> IF hasIssues THEN "issues" ELSE "empty"]
  /\ giPc' = "done"
  /\ UNCHANGED <<service, args, finalJql, searched>>
  /\ UNCHANGED notSvc

\* searchJira rejects with an error of the given statusCode: the catch
\* clauses of part_000:199-207 and part_001:193-203
SearchFails(statusCode) ==
  /\ giPc = "searching"
  /\ giOut' = [kind |->
       IF statusCode = 400 THEN "Invalid JQL query"
       ELSE IF statusCode = 401 THEN "Authentication failed"
       ELSE IF service = "part_000" THEN "rethrown"
       ELSE IF statusCode = 403 THEN "Permission denied"
       ELSE "Failed to get issues"]
  /\ giPc' = "threw"
  /\ UNCHANGED <<service, args, finalJql, searched>>
  /\ UNCHANGED notSvc

NextSvc ==
  \/ BuildJql000
  \/ BuildJql001
  \/ \E hasIssues \in BOOLEAN : SearchReturns(hasIssues)
  \/ \E statusCode \in {400, 401, 403, 500} : SearchFails(statusCode)

SpecSvc == InitSvc /\ [][NextSvc]_vars

(***************************************************************************)
(* JiraService.bulkUpdateIssues (part_000:395-535).  The fields put into   *)
(* updateData (lines 433-510) take no part in the control flow and are     *)
(* left out; each awaited request either resolves or rejects with an       *)
(* error, whose message may be empty.                                      *)
(***************************************************************************)
\* greatest number of issue keys of a call
MaxKeys == 3

IssueKeysPool == SeqsUpTo({"A-1", "B-2"}, MaxKeys)

\* the messages of the errors a request rejects with
ErrorMessages == {"", "not found"}

InitBulk ==
  /\ \E ks \in IssueKeysPool, a \in BOOLEAN, st \in BOOLEAN : BulkIdle("start", ks, a, st)
  /\ ConvIdle("idle", <<>>)
  /\ InlIdle("idle", <<>>)
  /\ JqlIdle("idle", <<>>, <<>>)
  /\ LogIdle("unset")
  /\ SvcIdle

issueKey == issueKeys[keyNo + 1]

\* lines 412-423: the account of the assignee is looked up once; a failure
\* is logged with console.warn and leaves accountId undefined
BulkStart(found) ==
  /\ bulkPc = "start"
  /\ accountId' = IF assignee /\ found THEN <<"account">> ELSE undefined
  /\ requests' = IF assignee
                 THEN Append(requests, [request |-> "getUserAccountId", key |-> "",
                                        ok |-> found])
                 ELSE requests
  /\ bulkPc' = "findIssue"
  /\ UNCHANGED <<issueKeys, assignee, status, successes, failures, keyNo, bulkOut>>
  /\ UNCHANGED notBulk

\* the for loop has a key to process
BulkInLoop(request) == bulkPc = request /\ keyNo < Len(issueKeys)

\* lines 524-527: the catch clause records the key and goes to the next one
Catch(message) ==
  /\ failures' = Append(failures,
                        [issueKey |-> issueKey,
                         error |-> IF message # "" THEN message ELSE "Unknown error"])
  /\ keyNo' = keyNo + 1
  /\ bulkPc' = "findIssue"
  /\ UNCHANGED successes

\* line 523: the key is pushed to successes and the loop goes on
Succeed ==
  /\ successes' = Append(successes, issueKey)
  /\ keyNo' = keyNo + 1
  /\ bulkPc' = "findIssue"
  /\ UNCHANGED failures

\* lines 429-431: await this.client.findIssue
FindIssue(ok, message) ==
  /\ BulkInLoop("findIssue")
  /\ requests' = Append(requests, [request |-> "findIssue", key |-> issueKey, ok |-> ok])
  /\ IF ok
     THEN bulkPc' = "updateIssue" /\ UNCHANGED <<successes, failures, keyNo>>
     ELSE Catch(message)
  /\ UNCHANGED <<issueKeys, assignee, status, accountId, bulkOut>>
  /\ UNCHANGED notBulk

\* UpdateIssue pushing the key to successes before the status transition
UpdateIssueSucceedsEarly(ok, message) ==
  /\ BulkInLoop("updateIssue")
  /\ requests' = Append(requests, [request |-> "updateIssue", key |-> issueKey, ok |-> ok])
  /\ IF ~ok THEN Catch(message)
     ELSE IF status
     THEN /\ successes' = Append(successes, issueKey)
          /\ bulkPc' = "transitionIssue"
          /\ UNCHANGED <<failures, keyNo>>
     ELSE Succeed
  /\ UNCHANGED <<issueKeys, assignee, status, accountId, bulkOut>>
  /\ UNCHANGED notBulk

\* lines 513-523: await this.client.updateIssue, and without a status the
\* key has succeeded
UpdateIssue(ok, message) ==
  /\ BulkInLoop("updateIssue")
  /\ requests' = Append(requests, [request |-> "updateIssue", key |-> issueKey, ok |-> ok])
  /\ IF ~ok THEN Catch(message)
     ELSE IF status
     THEN bulkPc' = "transitionIssue" /\ UNCHANGED <<successes, failures, keyNo>>
     ELSE Succeed
  /\ UNCHANGED <<issueKeys, assignee, status, accountId, bulkOut>>
  /\ UNCHANGED notBulk

\* lines 516-523: await this.transitionIssue, which throws when the
\* transitions cannot be read, none has the name, or the request fails
TransitionIssue(ok, message) ==
  /\ BulkInLoop("transitionIssue")
  /\ requests' = Append(requests,
                        [request |-> "transitionIssue", key |-> issueKey, ok |-> ok])
  /\ IF ok THEN Succeed ELSE Catch(message)
  /\ UNCHANGED <<issueKeys, assignee, status, accountId, bulkOut>>
  /\ UNCHANGED notBulk

\* lines 530-534
BulkReturn ==
  /\ bulkPc = "findIssue"
  /\ keyNo >= Len(issueKeys)
  /\ bulkOut' = [message |-> <<"Updated", Len(successes), "of", Len(issueKeys),
                               "issues successfully">>,
                 successes |-> successes,
                 failures |-> failures]
  /\ bulkPc' = "done"
  /\ UNCHANGED <<issueKeys, assignee, status, accountId, successes, failures, keyNo,
                 requests>>
  /\ UNCHANGED notBulk

NextBulk ==
  \/ \E found \in BOOLEAN : BulkStart(found)
  \/ \E ok \in BOOLEAN, message \in ErrorMessages : FindIssue(ok, message)
  \/ \E ok \in BOOLEAN, message \in ErrorMessages : UpdateIssue(ok, message)
  \/ \E ok \in BOOLEAN, message \in ErrorMessages : TransitionIssue(ok, message)
  \/ BulkReturn

SpecBulk == InitBulk /\ [][NextBulk]_vars

(***************************************************************************)
(* Vocabulary of the properties below, stated on the input and on the      *)
(* returned document.                                                      *)
(***************************************************************************)
Done == pc = "done"

\* 1-based numbers of the lines of ls that satisfy Test, in increasing order
IndicesOf(ls, Test(_)) ==
  LET S == {k \in 1..Len(ls) : Test(ls[k])}
  IN  [j \in 1..Cardinality(S) |->
         CHOOSE k \in S : Cardinality({m \in S : m < k}) = j - 1]

\* the fence lines as the loop of convertToADF recognises them
FenceLines(ls) == IndicesOf(ls, LAMBDA l : IsFence(Trim(l)))

BlocksOfType(d, ty) == SelectSeq(d.content, LAMBDA b : b.type = ty)

StrictlyIncreasing(ns) == \A k \in 1..(Len(ns) - 1) : ns[k] < ns[k + 1]

Consecutive(ns) == \A k \in 1..(Len(ns) - 1) : ns[k + 1] = ns[k] + 1

IsList(b) == b.type \in {"bulletList", "orderedList"}

(***************************************************************************)
(* C1.  An unterminated code block is never dropped: when the last fence   *)
(* line of the input opens a block that no later fence closes, the         *)
(* returned document contains a codeBlock whose text is all the lines      *)
(* after that fence joined by newlines.                                    *)
(* The loop ends with inCodeBlock still true and codeBlockContent is       *)
(* never pushed, so TLC refutes it.                                        *)
(***************************************************************************)
C1_Unterminated == Len(FenceLines(lines)) % 2 = 1

C1_LastFence == FenceLines(lines)[Len(FenceLines(lines))]

\* C1: an unterminated code block is in the returned document, with all the
\* lines after its fence as text
C1_UnterminatedBlockKept ==
  (Done /\ C1_Unterminated) =>
     \E k \in 1..Len(doc.content) :
        /\ doc.content[k].type = "codeBlock"
        /\ doc.content[k].content[1].text =
              Join(SubSeq(lines, C1_LastFence + 1, Len(lines)))

(***************************************************************************)
(* C2.  For every input that is empty or made only of white space (blank   *)
(* lines included) the call ends without an error and returns the          *)
(* document of version 1 and type "doc" with no block.                     *)
(***************************************************************************)
C2_OnlyWhiteSpace == \A k \in 1..Len(text) : text[k] \in {" ", "\t", "\n"}

\* C2: a white-space-only input returns the empty document and throws nothing
C2_EmptyInputEmptyDoc ==
  C2_OnlyWhiteSpace =>
     /\ pc # "threw"
     /\ Done => doc = [version |-> 1, type |-> "doc", content |-> <<>>]

\* reached: a white-space-only input of several lines, with a tab, has returned
C2_Witness ==
  /\ Done
  /\ C2_OnlyWhiteSpace
  /\ \E k \in 1..Len(text) : text[k] = "\t"
  /\ \E k \in 1..Len(text) : text[k] = "\n"
  /\ doc.content = <<>>

(***************************************************************************)
(* C3.  A fence line is three backquotes optionally followed by a language *)
(* tag, with or without a space before the tag; every block opened by one  *)
(* fence line and closed by a later one is emitted as exactly one          *)
(* codeBlock, whose language is the trimmed tag of its opening fence, or   *)
(* "plain" when the opening fence has no tag.                              *)
(* The loop takes a fence with a tag only when a space follows the         *)
(* backquotes, and reads the language from the closing fence, so TLC       *)
(* refutes it.                                                             *)
(***************************************************************************)
C3_IsFence(l) == StartsWith(Trim(l), Fence)

C3_Tag(l) == Trim(SubSeq(Trim(l), Len(Fence) + 1, Len(Trim(l))))

C3_Language(l) == IF C3_Tag(l) = <<>> THEN <<"p", "l", "a", "i", "n">> ELSE C3_Tag(l)

C3_Fences == IndicesOf(lines, C3_IsFence)

\* the languages of the closed blocks: fences 1 and 2, 3 and 4, ...
C3_Expected ==
  [k \in 1..(Len(C3_Fences) \div 2) |-> C3_Language(lines[C3_Fences[2 * k - 1]])]

C3_Emitted ==
  LET bs == BlocksOfType(doc, "codeBlock")
  IN  [k \in 1..Len(bs) |-> bs[k].attrs.language]

\* C3: the codeBlocks emitted are those of the closed fence pairs, each with
\* the language of its opening fence
C3_LanguageOfOpeningFence == (Done /\ lines # <<>>) => C3_Emitted = C3_Expected

(***************************************************************************)
(* C4.  The document preserves source line order: reading the blocks in    *)
(* sequence and the items inside their list, the source lines that         *)
(* produced them come in strictly increasing order.                        *)
(* A heading or a code block does not close the open list, so a later item *)
(* of the same kind is pushed into the list that precedes them, and TLC    *)
(* refutes it.                                                             *)
(***************************************************************************)
\* C4: the source lines of the blocks and items, in reading order, increase
C4_SourceOrderPreserved == Done => StrictlyIncreasing(Flatten(origin))

(***************************************************************************)
(* C5.  The items of every list block come from consecutive source lines.  *)
(* Refuted by TLC for the same reason as C4.                               *)
(***************************************************************************)
\* C5: the items of each list block come from consecutive lines
C5_ListItemsContiguous ==
  Done => \A k \in 1..Len(content) : IsList(content[k]) => Consecutive(origin[k])

(***************************************************************************)
(* C6.  A blank line or a change of list kind ends the open list: an item  *)
(* line that follows a blank line, or an item of the other kind, starts a  *)
(* new list block, appended to the document with that item alone; a blank  *)
(* line itself emits no block.                                             *)
(***************************************************************************)
C6_Kind(l) ==
  IF IsBullet(Trim(l)) THEN "bullet" ELSE IF IsOrdered(Trim(l)) THEN "ordered" ELSE "none"

C6_IsBlankLine(l) == \A k \in 1..Len(l) : l[k] \in {" ", "\t"}

\* the line before the current one is blank or an item of another kind
C6_Terminated ==
  /\ i >= 1
  /\ \/ C6_IsBlankLine(lines[i])
     \/ C6_Kind(lines[i]) \notin {"none", C6_Kind(line)}

C6_Step ==
  (InLoop /\ ~inCodeBlock) =>
     /\ (C6_Kind(line) # "none" /\ C6_Terminated) =>
           /\ Len(content') = Len(content) + 1
           /\ SubSeq(content', 1, Len(content)) = content
           /\ content'[Len(content')].type = C6_Kind(line) \o "List"
           /\ Len(content'[Len(content')].content) = 1
     /\ C6_IsBlankLine(line) => content' = content

\* C6: every step of the loop satisfies C6_Step
C6_BlankOrKindChangeEndsList == [][C6_Step]_vars

\* reached: two lists of one kind, the second begun by the item after a blank line
C6_Witness ==
  /\ Done
  /\ \E k \in 2..Len(content) :
        /\ IsList(content[k - 1])
        /\ content[k].type = content[k - 1].type
        /\ origin[k][1] >= 2
        /\ C6_IsBlankLine(lines[origin[k][1] - 1])

(***************************************************************************)
(* C7.  While a fence is open every line that is no fence line is appended *)
(* as it is (untrimmed) to the code block, whatever its shape; the step    *)
(* emits no block and leaves the open list alone.  The closing fence emits *)
(* exactly one codeBlock whose text is those lines joined by newlines.  A  *)
(* fence line is taken as a fence before any other rule looks at it.       *)
(* The fence lines are those the loop recognises (see C3).                 *)
(***************************************************************************)
C7_Step ==
  InLoop =>
     /\ (inCodeBlock /\ ~IsFence(Trim(line))) =>
           /\ codeBlockContent' = Append(codeBlockContent, lines[i + 1])
           /\ content' = content
           /\ currentList' = currentList
           /\ currentListType' = currentListType
           /\ inCodeBlock'
     /\ (inCodeBlock /\ IsFence(Trim(line))) =>
           /\ Len(content') = Len(content) + 1
           /\ SubSeq(content', 1, Len(content)) = content
           /\ content'[Len(content')].type = "codeBlock"
           /\ content'[Len(content')].content = <<TextNode(Join(codeBlockContent))>>
           /\ ~inCodeBlock'
     /\ (~inCodeBlock /\ IsFence(Trim(line))) =>
           /\ inCodeBlock'
           /\ content' = content

\* the text of the k-th codeBlock is the lines between fences 2k-1 and 2k
C7_Final ==
  Done =>
     LET bs == BlocksOfType(doc, "codeBlock")
         fs == FenceLines(lines)
     IN  /\ Len(bs) = Len(fs) \div 2
         /\ \A k \in 1..Len(bs) :
               bs[k].content[1].text = Join(SubSeq(lines, fs[2 * k - 1] + 1, fs[2 * k] - 1))

\* C7: every step of the loop satisfies C7_Step and every returned document
\* C7_Final
C7_CodeBlockVerbatim == [](C7_Final) /\ [][C7_Step]_vars

\* reached: a closed code block holding an untrimmed line shaped like a bullet
C7_Witness ==
  /\ Done
  /\ \E k \in 1..Len(doc.content) :
        /\ doc.content[k].type = "codeBlock"
        /\ doc.content[k].content[1].text = <<" ", "*", " ", "c", " ">>

(***************************************************************************)
(* C8.  As stated: a line outside code blocks that begins with n '#',      *)
(* 1 <= n <= 6, followed by a space is emitted as a heading of level n     *)
(* whose text is the remainder of the line; and every heading level is in  *)
(* 1..6.  TLC refutes the text part: the white space after the '#' run is  *)
(* dropped whole, not only its first space.                                *)
(* As amended: the text is the rest of the trimmed line after the '#' run  *)
(* with its leading white space removed.                                   *)
(***************************************************************************)
C8_NodeText(b) == Flatten([k \in 1..Len(b.content) |-> b.content[k].text])

\* l begins with exactly n '#' and then a space
C8_HashSpace(l, n) ==
  /\ Len(l) > n
  /\ \A k \in 1..n : l[k] = "#"
  /\ l[n + 1] = " "

C8_LevelsInRange ==
  \A k \in 1..Len(content) :
     content[k].type = "heading" => content[k].attrs.level \in 1..6

C8_StepOriginal ==
  (InLoop /\ ~inCodeBlock) =>
     \A n \in 1..6 :
        C8_HashSpace(Trim(line), n) =>
           /\ Len(content') = Len(content) + 1
           /\ content'[Len(content')].type = "heading"
           /\ content'[Len(content')].attrs.level = n
           /\ C8_NodeText(content'[Len(content')]) =
                 SubSeq(Trim(line), n + 2, Len(Trim(line)))

\* C8 as stated: the heading text is the remainder after the '#' run and
\* one space
C8_HeadingTextIsRemainder == [](C8_LevelsInRange) /\ [][C8_StepOriginal]_vars

RECURSIVE C8_DropLeadingSpace(_)
C8_DropLeadingSpace(l) ==
  IF l # <<>> /\ Head(l) \in {" ", "\t"} THEN C8_DropLeadingSpace(Tail(l)) ELSE l

C8_StepAmended ==
  (InLoop /\ ~inCodeBlock) =>
     \A n \in 1..6 :
        C8_HashSpace(Trim(line), n) =>
           /\ Len(content') = Len(content) + 1
           /\ SubSeq(content', 1, Len(content)) = content
           /\ content'[Len(content')].type = "heading"
           /\ content'[Len(content')].attrs.level = n
           /\ C8_NodeText(content'[Len(content')]) =
                 C8_DropLeadingSpace(SubSeq(Trim(line), n + 1, Len(Trim(line))))

\* C8 as amended: level n, the text without its leading white space, and
\* every level in 1..6
C8_HeadingLevelAndText == [](C8_LevelsInRange) /\ [][C8_StepAmended]_vars

\* reached: headings of level 1 and 2 from "# H" and "##  H", and one from a
\* line of seven '#'
C8_Witness ==
  /\ Done
  /\ \E j, k, m \in 1..Len(content) :
        /\ content[j] = HeadingNode(1, <<"H">>)
        /\ content[k] = HeadingNode(2, <<"H">>)
        /\ content[m].type = "heading"
        /\ RunOfHashes(Trim(lines[origin[m][1]])) = 7

(***************************************************************************)
(* C9.  A line outside code blocks that ends with a colon, does not begin  *)
(* with '#' and is no fence and no list item is emitted as a heading of    *)
(* level 3 whose text is the whole trimmed line when the next line is      *)
(* blank or absent, and as a paragraph when the next line is not blank.    *)
(***************************************************************************)
C9_ColonLine(l) ==
  /\ Trim(l) # <<>>
  /\ Trim(l)[Len(Trim(l))] = ":"
  /\ Trim(l)[1] # "#"
  /\ ~IsFence(Trim(l))
  /\ ~IsBullet(Trim(l))
  /\ ~IsOrdered(Trim(l))

C9_NextBlankOrAbsent ==
  \/ i + 2 > Len(lines)
  \/ \A k \in 1..Len(lines[i + 2]) : lines[i + 2][k] \in {" ", "\t"}

C9_Step ==
  (InLoop /\ ~inCodeBlock /\ C9_ColonLine(line)) =>
     /\ Len(content') = Len(content) + 1
     /\ SubSeq(content', 1, Len(content)) = content
     /\ IF C9_NextBlankOrAbsent
        THEN /\ content'[Len(content')].type = "heading"
             /\ content'[Len(content')].attrs.level = 3
             /\ C8_NodeText(content'[Len(content')]) = Trim(line)
        ELSE content'[Len(content')].type = "paragraph"

\* C9: every step of the loop on a colon line satisfies C9_Step
C9_ColonHeading == [][C9_Step]_vars

\* reached: one colon line emitted as a paragraph (a line follows it) and
\* one as a heading of level 3 (before a blank line or the end)
C9_Witness ==
  /\ Done
  /\ \E j, k \in 1..Len(content) :
        /\ content[j].type = "paragraph"
        /\ C9_ColonLine(lines[origin[j][1]])
        /\ content[k] = HeadingNode(3, <<"T", ":">>)
        /\ C9_ColonLine(lines[origin[k][1]])

(***************************************************************************)
(* C10.  In parseInlineFormatting an unescaped "**" opens a strong run, an *)
(* unescaped "*" not followed by "*" an em run and an unescaped backquote  *)
(* a code run; the text of the run goes from just after the opener to the  *)
(* next occurrence of the same delimiter, or to the end of the line when   *)
(* there is none, and the scan resumes just after the closing delimiter.   *)
(***************************************************************************)
\* 1-based positions p >= from at which delim occurs in t
C10_Occurrences(t, delim, from) ==
  {p \in from..(Len(t) - Len(delim) + 1) : SubSeq(t, p, p + Len(delim) - 1) = delim}

\* the first of them, or the position after the line's end
C10_Close(t, delim, from) ==
  IF C10_Occurrences(t, delim, from) = {} THEN Len(t) + 1
  ELSE CHOOSE p \in C10_Occurrences(t, delim, from) :
          \A q \in C10_Occurrences(t, delim, from) : p <= q

\* the step at 0-based position k opens a run of mark m with delimiter delim
C10_Opens(k, delim, m) ==
  LET from == k + Len(delim) + 1
      close == C10_Close(inlText, delim, from)
      last == inlSt'.result[Len(inlSt'.result)]
  IN  /\ Len(inlSt'.result) >= 1
      /\ last = [type |-> "text", text |-> SubSeq(inlText, from, close - 1),
                 marks |-> <<[type |-> m]>>]
      /\ IF close <= Len(inlText)
         THEN inlSt'.i = (close - 1) + Len(delim)
         ELSE inlSt'.i >= Len(inlText)
      /\ inlSt'.currentText = <<>>

C10_Unescaped(k) == k = 0 \/ inlText[k] # "\\"

C10_Step ==
  (inlPc = "loop" /\ inlSt.i < Len(inlText) /\ C10_Unescaped(inlSt.i)) =>
     LET k == inlSt.i
         c == inlText[k + 1]
         n == IF k + 2 <= Len(inlText) THEN inlText[k + 2] ELSE ""
     IN  /\ (c = "*" /\ n = "*") => C10_Opens(k, <<"*", "*">>, "strong")
         /\ (c = "*" /\ n # "*") => C10_Opens(k, <<"*">>, "em")
         /\ (c = BQ) => C10_Opens(k, <<BQ>>, "code")

\* C10: every step of the scan at an unescaped opener satisfies C10_Step
C10_RunsFromOpenerToCloser == [][C10_Step]_vars

\* reached: a closed strong run followed by plain text, the scan having
\* resumed just after the closing "**"
C10_Witness ==
  /\ inlPc = "done"
  /\ inlText = <<"*", "*", "a", "*", "*", "b">>
  /\ inlOut = <<MarkedNode(<<"a">>, "strong"), TextNode(<<"b">>)>>

(***************************************************************************)
(* C11.  Escaping applies to openers only.  A '*' or backquote whose       *)
(* preceding character is a backslash opens no run: the step pushes        *)
(* nothing and the character joins the pending plain text.  A delimiter    *)
(* preceded by a backslash still closes the run that is open: when the     *)
(* first occurrence of the delimiter after an opener follows a backslash,  *)
(* the run ends there (its text ends with the backslash) and the scan      *)
(* resumes after it.                                                       *)
(***************************************************************************)
C11_Delim(m) ==
  IF m = "strong" THEN <<"*", "*">> ELSE IF m = "em" THEN <<"*">> ELSE <<BQ>>

C11_EscapedOpener ==
  LET k == inlSt.i
  IN  (k >= 1 /\ inlText[k] = "\\" /\ inlText[k + 1] \in {"*", BQ}) =>
         /\ inlSt'.result = inlSt.result
         /\ inlSt'.currentText = Append(inlSt.currentText, inlText[k + 1])
         /\ inlSt'.i = k + 1

C11_EscapedCloser ==
  Len(inlSt'.result) > Len(inlSt.result) =>
     LET last == inlSt'.result[Len(inlSt'.result)]
         delim == C11_Delim(last.marks[1].type)
         from == inlSt.i + Len(delim) + 1
         close == C10_Close(inlText, delim, from)
     IN  (close <= Len(inlText) /\ close >= 2 /\ inlText[close - 1] = "\\") =>
            /\ last.text = SubSeq(inlText, from, close - 1)
            /\ inlSt'.i = (close - 1) + Len(delim)

C11_Step ==
  (inlPc = "loop" /\ inlSt.i < Len(inlText)) => (C11_EscapedOpener /\ C11_EscapedCloser)

\* C11: every step of the scan satisfies C11_Step
C11_EscapeOpenersOnly == [][C11_Step]_vars

\* reached: an em run closed by an escaped '*', then an escaped '*' left in
\* the plain text
C11_Witness ==
  /\ inlPc = "done"
  /\ inlText = <<"*", "a", "\\", "*", "\\", "*">>
  /\ inlOut = <<MarkedNode(<<"a", "\\">>, "em"), TextNode(<<"\\", "*">>)>>

(***************************************************************************)
(* C12.  The runs cover disjoint, increasing spans of the line, each with  *)
(* at most one mark, and only delimiter characters ('*', backquote) are    *)
(* left out: the pending plain text is the span that ends at the scan      *)
(* position; a step either adds the current character to it, or flushes it *)
(* as a plain run and pushes one marked run whose text is a span further   *)
(* right, skipping delimiter characters only; the returned runs are those  *)
(* pushed, with the pending text flushed last, and their texts joined give *)
(* the line with delimiter characters removed.                             *)
(***************************************************************************)
C12_Delims == {"*", BQ}

C12_Marks == {"strong", "em", "code"}

C12_PendingIsSpan ==
  inlPc = "loop" =>
     \/ inlSt.currentText = <<>>
     \/ /\ inlSt.i <= Len(inlText)
        /\ Len(inlSt.currentText) <= inlSt.i
        /\ inlSt.currentText =
              SubSeq(inlText, inlSt.i - Len(inlSt.currentText) + 1, inlSt.i)

C12_Flushed(runs, pending) ==
  IF pending # <<>> THEN runs \o <<[type |-> "text", text |-> pending]>> ELSE runs

\* out is t with some characters of C12_Delims deleted
RECURSIVE C12_DeletesOnlyDelims(_, _)
C12_DeletesOnlyDelims(t, out) ==
  IF t = <<>> THEN out = <<>>
  ELSE \/ /\ out # <<>>
          /\ Head(t) = Head(out)
          /\ C12_DeletesOnlyDelims(Tail(t), Tail(out))
       \/ /\ Head(t) \in C12_Delims
          /\ C12_DeletesOnlyDelims(Tail(t), out)

C12_Step ==
  (inlPc = "loop" /\ inlSt.i < Len(inlText)) =>
     LET k == inlSt.i
         n == Len(inlText)
     IN  \/ /\ inlSt'.result = inlSt.result
            /\ inlSt'.currentText = Append(inlSt.currentText, inlText[k + 1])
            /\ inlSt'.i = k + 1
         \/ \E a \in (k + 2)..(n + 1), b \in (k + 1)..n, m \in C12_Marks :
               /\ a <= b + 1
               /\ inlSt'.result =
                     C12_Flushed(inlSt.result, inlSt.currentText)
                        \o <<[type |-> "text", text |-> SubSeq(inlText, a, b),
                              marks |-> <<[type |-> m]>>]>>
               /\ \A q \in (k + 1)..(a - 1) : inlText[q] \in C12_Delims
               /\ inlSt'.i >= b
               /\ \A q \in (b + 1)..Min(inlSt'.i, n) : inlText[q] \in C12_Delims
               /\ inlSt'.currentText = <<>>

C12_Final ==
  inlPc = "done" =>
     /\ inlOut = IF inlText = <<>> THEN <<[type |-> "text", text |-> <<>>]>>
                 ELSE C12_Flushed(inlSt.result, inlSt.currentText)
     /\ C12_DeletesOnlyDelims(inlText, Flatten([k \in 1..Len(inlOut) |-> inlOut[k].text]))

\* C12: every state of the scan satisfies C12_PendingIsSpan and C12_Final,
\* every step C12_Step
C12_RunsCoverLine == [](C12_PendingIsSpan /\ C12_Final) /\ [][C12_Step]_vars

\* reached: plain text flushed before an em run, and again at the end of the line
C12_Witness ==
  /\ inlPc = "done"
  /\ inlText = <<"a", "*", "b", "*", "a">>
  /\ inlOut = <<TextNode(<<"a">>), MarkedNode(<<"b">>, "em"), TextNode(<<"a">>)>>

(***************************************************************************)
(* formatJQL: what the loop does with one mapping entry.                   *)
(***************************************************************************)
\* the loop is at an entry whose placeholder occurs in the current string
JqlAtToken == JqlInLoop /\ Includes(formattedQuery, <<"$", "{">> \o key \o <<"}">>)

\* the text before, and after, the first occurrence of a token
TextBefore(str, token) == SubSeq(str, 1, IndexOf(str, token, 0))

TextAfter(str, token) == SubSeq(str, IndexOf(str, token, 0) + Len(token) + 1, Len(str))

\* the number of places at which a token occurs
Occurrences(str, token) ==
  Cardinality({p \in 0..(Len(str) - Len(token)) :
                 SubSeq(str, p + 1, p + Len(token)) = token})

\* the string rule of the specification: quoted, with each double quote
\* preceded by a backslash, when it has a space, a quote or a backslash
RECURSIVE C13_Escaped(_)
C13_Escaped(v) ==
  IF v = <<>> THEN <<>>
  ELSE (IF Head(v) = DQ THEN <<BS, DQ>> ELSE <<Head(v)>>) \o C13_Escaped(Tail(v))

C13_Special(v) == \E k \in 1..Len(v) : v[k] \in {" ", DQ, "'", BS}

C13_StringRule(v) ==
  IF C13_Special(v) THEN <<DQ>> \o C13_Escaped(v) \o <<DQ>> ELSE v

C13_Token(name) == <<"$", "{">> \o name \o <<"}">>

C13_Step ==
  (JqlAtToken /\ value.kind = "string" /\ entryNo' = entryNo + 1)
    => formattedQuery' = TextBefore(formattedQuery, C13_Token(key))
                         \o C13_StringRule(value.str)
                         \o TextAfter(formattedQuery, C13_Token(key))

\* C13: processing an entry with a string value v puts, in place of the first
\* occurrence of its placeholder, v in double quotes with each embedded double
\* quote preceded by a backslash when v has a space, a quote or a backslash,
\* and v itself, unquoted, otherwise.
C13_StringValueInserted == [][C13_Step]_vars

\* the rule of the specification for a value that is not a string: the
\* elements of a list by the string rule, joined by a comma and a space, and
\* any other scalar as its string form
C14_Element(v) == IF v.kind = "string" THEN C13_StringRule(v.str) ELSE v.str

RECURSIVE C14_Joined(_)
C14_Joined(vs) ==
  IF vs = <<>> THEN <<>>
  ELSE IF Len(vs) = 1 THEN C14_Element(vs[1])
  ELSE C14_Element(vs[1]) \o <<",", " ">> \o C14_Joined(Tail(vs))

C14_Formatted(v) == IF v.kind = "array" THEN C14_Joined(v.items) ELSE C14_Element(v)

C14_Step ==
  (JqlAtToken /\ value.kind # "string" /\ entryNo' = entryNo + 1)
    => formattedQuery' = TextBefore(formattedQuery, C13_Token(key))
                         \o C14_Formatted(value)
                         \o TextAfter(formattedQuery, C13_Token(key))

\* C14: processing an entry with a list value puts, in place of the first
\* occurrence of its placeholder, the elements formatted by the string rule
\* and joined in list order by a comma and a space; an entry with another
\* scalar puts the scalar's string form there, unquoted.
C14_ListAndScalarInserted == [][C14_Step]_vars

C15_Step ==
  LET token == C13_Token(key)
      m == Occurrences(formattedQuery, token)
      before == TextBefore(formattedQuery, token)
      after == TextAfter(formattedQuery, token)
      out == formattedQuery'
  IN  (/\ JqlInLoop
       /\ entryNo = 0
       /\ m >= 2
       /\ ~Includes(C14_Formatted(value), token)
       /\ entryNo' = entryNo + 1)
        => /\ Len(out) >= Len(before) + Len(after)
           /\ SubSeq(out, 1, Len(before)) = before
           /\ SubSeq(out, Len(out) - Len(after) + 1, Len(out)) = after
           /\ Occurrences(out, token) = m - 1

\* C15: when the placeholder of the first entry occurs m >= 2 times in the
\* template and its value does not contain the placeholder, processing the
\* entry keeps the text before the leftmost occurrence and the text after it
\* and leaves exactly m-1 occurrences of the placeholder.
C15_OnlyFirstOccurrence == [][C15_Step]_vars

C16_Token(name) == <<"$", "{">> \o name \o <<"}">>

\* the name of a token that is the key of no entry
C16_Unknown == <<"u">>

\* an entry whose token does not occur in the string it is applied to
C16_SkipStep ==
  (JqlInLoop /\ ~Includes(formattedQuery, C16_Token(key)) /\ entryNo' = entryNo + 1)
    => formattedQuery' = formattedQuery

\* an entry whose token occurs: the text around the first occurrence stays
C16_AroundStep ==
  LET before == TextBefore(formattedQuery, C16_Token(key))
      after == TextAfter(formattedQuery, C16_Token(key))
      out == formattedQuery'
  IN  (JqlInLoop /\ Includes(formattedQuery, C16_Token(key)) /\ entryNo' = entryNo + 1)
        => /\ Len(out) >= Len(before) + Len(after)
           /\ SubSeq(out, 1, Len(before)) = before
           /\ SubSeq(out, Len(out) - Len(after) + 1, Len(out)) = after

C16_Returned ==
  jqlPc = "done"
    => /\ Occurrences(jqlOut, C16_Token(C16_Unknown))
            >= Occurrences(query, C16_Token(C16_Unknown))
       /\ (\A e \in 1..Len(params) : ~Includes(query, C16_Token(params[e].key)))
            => jqlOut = query

C17_BackslashesBefore(t, k) ==
  CHOOSE n \in 0..(k - 2) :
    /\ \A m \in 1..n : t[k - m] = BS
    /\ (n = k - 2 \/ t[k - n - 1] # BS)

\* one closed double-quoted literal: every double quote inside is escaped,
\* the final one is not
C17_ClosedLiteral(t) ==
  /\ Len(t) >= 2
  /\ t[1] = DQ
  /\ t[Len(t)] = DQ
  /\ C17_BackslashesBefore(t, Len(t)) % 2 = 0
  /\ \A k \in 2..(Len(t) - 1) : t[k] = DQ => C17_BackslashesBefore(t, k) % 2 = 1

C17_Step ==
  (/\ JqlAtToken
   /\ value.kind = "string"
   /\ C13_Special(value.str)
   /\ entryNo' = entryNo + 1)
    => C17_ClosedLiteral(formattedValue')

\* C17: the text formatted for a string value that has a space, a quote or a
\* backslash is one closed double-quoted literal: no double quote between its
\* opening and final quote is unescaped, and its final quote is not escaped.
C17_QuotedLiteralClosed == [][C17_Step]_vars

(***************************************************************************)
(* Totality of convertToADF and formatJQL.                                 *)
(***************************************************************************)
\* the open-list reference and the open-list kind are set, and reset, together
C18_ListOpen ==
  /\ currentListType = "null" <=> currentList = 0
  /\ currentListType # "null"
       => /\ currentList \in 1..Len(content)
          /\ content[currentList].type = currentListType \o "List"

\* a call that has not returned has not thrown and has a next step; the loops
\* stay within the lines and the entries
C18_Running ==
  /\ pc # "threw"
  /\ pc \in {"start", "loop"} => ENABLED Next
  /\ jqlPc \in {"start", "loop"} => ENABLED NextJql
  /\ i <= Len(lines)
  /\ entryNo <= Len(params)

\* a call that has returned has a result: a document, a string
C18_Returned ==
  /\ pc = "done" => doc.type = "doc" /\ doc.version = 1
  /\ jqlPc = "done" => jqlOut \in Seq({query[k] : k \in 1..Len(query)}
                                       \cup {" ", DQ, "'", BS, ",", "$", "&", "{", "}",
                                             "a", "b", "j", "5", "t", "r", "u", "e"})

\* every step moves a call on: to the next line, the next entry or the next
\* position of the function
C18_Advance ==
  \/ i' = i + 1
  \/ entryNo' = entryNo + 1
  \/ pc' # pc
  \/ jqlPc' # jqlPc

\* a step at a list item line appends the item to the open list, which is of
\* the item's kind, and to no other block
C18_ItemStep ==
  LET kind == IF IsBullet(trimmedLine) THEN "bullet" ELSE "ordered"
      item == IF IsBullet(trimmedLine)
              THEN Substring(trimmedLine, 2, Len(trimmedLine))
              ELSE OrderedText(trimmedLine)
  IN  (/\ Outside
       /\ ~IsBlank(trimmedLine)
       /\ IsBullet(trimmedLine) \/ IsOrdered(trimmedLine)
       /\ i' = i + 1)
        => /\ currentList' \in 1..Len(content')
           /\ currentListType' = kind
           /\ content'[currentList'].type = kind \o "List"
           /\ Len(content'[currentList'].content) >= 1
           /\ content'[currentList'].content[Len(content'[currentList'].content)]
                = ListItemNode(item)
           /\ \A b \in 1..Len(content) : b # currentList' => content'[b] = content[b]

\* C18: convertToADF and formatJQL never throw and always return a result:
\* every call that has not returned has a next step, every step advances it,
\* the open-list reference is a list of the open-list kind whenever the kind
\* is set and both are null together, and an item line appends its item to
\* the open list of its own kind.
C18_Total ==
  [](C18_ListOpen /\ C18_Running /\ C18_Returned) /\ [][C18_Advance /\ C18_ItemStep]_vars

\* an item follows a blank line that closed a list of the same kind, and the
\* call returned
C18_Witness ==
  /\ pc = "done"
  /\ lines = <<<<"-", " ", "a">>, <<>>, <<"-", " ", "a">>>>
  /\ Len(doc.content) = 2
  /\ doc.content[2].type = "bulletList"

(***************************************************************************)
(* The log function.                                                       *)
(***************************************************************************)
\* the order debug < info < warn < error of the documentation
C20_Rank(name) ==
  CASE name = "debug" -> 0
    [] name = "info" -> 1
    [] name = "warn" -> 2
    [] name = "error" -> 3

C20_Levels == {"debug", "info", "warn", "error"}

\* the lines of the calls whose level is at or above the configured one
RECURSIVE C20_Expected(_, _)
C20_Expected(cs, configured) ==
  IF cs = <<>> THEN <<>>
  ELSE (IF C20_Rank(Head(cs).level) >= C20_Rank(configured)
        THEN <<LogLine(Head(cs).message, Head(cs).level)>>
        ELSE <<>>)
       \o C20_Expected(Tail(cs), configured)

\* C20: with LOG_LEVEL one of debug, info, warn, error, the lines printed are
\* those of the calls whose level is at or above LOG_LEVEL in the order
\* debug < info < warn < error, and no others.
C20_PrintsAtOrAboveLevel ==
  (LOG_LEVEL \in C20_Levels /\ \A k \in 1..Len(calls) : calls[k].level \in C20_Levels)
    => console = C20_Expected(calls, LOG_LEVEL)

(***************************************************************************)
(* JiraService.getIssues.                                                  *)
(***************************************************************************)
C21_Given(opt) == opt # <<>> /\ opt[1] # <<>>

C21_ProjectClause == <<"p", "r", "o", "j", "e", "c", "t", " ", "=", " ">>

\* C21: the query getIssues sends to searchJira is the caller's jql, with no
\* project clause added, when jql is given without projectKey; it names the
\* project and holds the jql when both are given; it is a project clause of
\* that project alone when only projectKey is given.
C21_JqlWithoutProject ==
  giPc = "searching"
    => LET sent == searched[1].jql
       IN  /\ (C21_Given(args.jql) /\ args.projectKey = undefined)
                => sent = args.jql[1]
           /\ (C21_Given(args.jql) /\ C21_Given(args.projectKey))
                => /\ StartsWith(sent, C21_ProjectClause)
                   /\ Includes(sent, args.projectKey[1])
                   /\ Includes(sent, args.jql[1])
           /\ (~C21_Given(args.jql) /\ C21_Given(args.projectKey))
                => /\ StartsWith(sent, C21_ProjectClause)
                   /\ Includes(sent, args.projectKey[1])
                   /\ Len(sent) <= Len(C21_ProjectClause) + Len(args.projectKey[1]) + 2

(***************************************************************************)
(* Inline marks in list items and headings; the heading triggers.          *)
(***************************************************************************)
\* the line the loop is at is a list item line
C22_ItemLine == Outside /\ ~IsBlank(trimmedLine) /\ (IsBullet(trimmedLine) \/ IsOrdered(trimmedLine))

\* the remainder of an item line after its prefix
C22_Remainder(t) ==
  IF StartsWith(t, <<"-", " ">>) \/ StartsWith(t, <<"*", " ">>)
  THEN SubSeq(t, 3, Len(t))
  ELSE SubSeq(t, RunOfDigits(t) + 3, Len(t))

C22_Step ==
  (C22_ItemLine /\ i' = i + 1)
    => LET items == content'[currentList'].content
       IN  items[Len(items)] =
             [type |-> "listItem",
              content |-> <<ParagraphNode(parseInlineFormatting(C22_Remainder(trimmedLine)))>>]

\* C22: the item pushed for a bullet or an ordered line wraps exactly one
\* paragraph whose runs are parseInlineFormatting of the remainder of the line
\* after the prefix.
C22_ItemTextInlineParsed == [][C22_Step]_vars

\* the line the loop is at goes down the heading path
C23_HeadingLine == Plain /\ IsHeading(trimmedLine, nextLine)

C23_Step ==
  (C23_HeadingLine /\ i' = i + 1)
    => /\ Len(content') = Len(content) + 1
       /\ content'[Len(content')].type = "heading"
       /\ content'[Len(content')].content =
            parseInlineFormatting(HeadingText(trimmedLine))

\* C23: the runs of an emitted heading are parseInlineFormatting of the
\* heading text (what follows the '#' prefix, or the whole trimmed line of a
\* colon heading).
C23_HeadingTextInlineParsed == [][C23_Step]_vars

\* trigger (a): one to six '#' and then a space
C24_HashTrigger(t) ==
  \E n \in 1..6 : /\ Len(t) > n
                  /\ \A k \in 1..n : t[k] = "#"
                  /\ t[n + 1] = " "

\* trigger (b): a final colon, and the next line blank or absent
C24_ColonTrigger(t, k) ==
  /\ t # <<>>
  /\ t[Len(t)] = ":"
  /\ (k + 1 > Len(lines) \/ \A c \in 1..Len(lines[k + 1]) : lines[k + 1][c] \in {" ", TAB})

C24_Step ==
  (Plain /\ i' = i + 1)
    => /\ Len(content') = Len(content) + 1
       /\ content'[Len(content')].type = "heading"
            => (C24_HashTrigger(trimmedLine) \/ C24_ColonTrigger(trimmedLine, i + 1))
       /\ (StartsWith(trimmedLine, <<"#">>)
             /\ ~C24_HashTrigger(trimmedLine)
             /\ ~C24_ColonTrigger(trimmedLine, i + 1))
            => content'[Len(content')].type = "paragraph"

\* C24: a line is emitted as a heading only if it begins with one to six '#'
\* and a space, or ends with a colon before a blank or absent line; a line
\* that begins with '#' and meets neither is emitted as a paragraph.
C24_HeadingOnlyByTrigger == [][C24_Step]_vars

(***************************************************************************)
(* Paragraph lines.                                                        *)
(***************************************************************************)
\* line k (1-based) has the shape of a paragraph line: not blank, no fence,
\* no list item, no '#' at its start and no colon heading
C25_ParagraphShape(k) ==
  LET t == Trim(lines[k])
  IN  /\ t # <<>>
      /\ ~StartsWith(t, Fence)
      /\ ~StartsWith(t, <<"-", " ">>)
      /\ ~StartsWith(t, <<"*", " ">>)
      /\ ~(RunOfDigits(t) >= 1 /\ Len(t) >= RunOfDigits(t) + 2
             /\ t[RunOfDigits(t) + 1] = "." /\ t[RunOfDigits(t) + 2] \in {" ", TAB})
      /\ ~StartsWith(t, <<"#">>)
      /\ ~C24_ColonTrigger(t, k)

C25_ParagraphStep ==
  (InLoop /\ ~inCodeBlock /\ C25_ParagraphShape(i + 1) /\ i' = i + 1)
    => /\ content' = Append(content, ParagraphNode(parseInlineFormatting(Trim(line))))
       /\ currentList' = 0
       /\ currentListType' = "null"

C25_ItemAfterParagraphStep ==
  (C22_ItemLine /\ i >= 1 /\ C25_ParagraphShape(i) /\ i' = i + 1)
    => /\ Len(content') = Len(content) + 1
       /\ SubSeq(content', 1, Len(content)) = content
       /\ IsList(content'[Len(content')])
       /\ Len(content'[Len(content')].content) = 1

\* C25: a paragraph line outside a code block is emitted as a paragraph whose
\* runs are parseInlineFormatting of the trimmed line and leaves no list
\* open; a list item line directly after it starts a new list block of one
\* item.
C25_ParagraphClosesList == [][C25_ParagraphStep /\ C25_ItemAfterParagraphStep]_vars

\* "- a", "*p* q", "- a": a list, a paragraph with an em run, a second list
C25_Witness ==
  /\ pc = "done"
  /\ lines = <<<<"-", " ", "a">>, <<"*", "p", "*", " ", "q">>, <<"-", " ", "a">>>>
  /\ doc.content = <<[type |-> "bulletList", content |-> <<ListItemNode(<<"a">>)>>],
                     ParagraphNode(<<MarkedNode(<<"p">>, "em"), TextNode(<<" ", "q">>)>>),
                     [type |-> "bulletList", content |-> <<ListItemNode(<<"a">>)>>]>>

(***************************************************************************)
(* formatJQL: the replacement, and the order of the entries.               *)
(***************************************************************************)
C26_Step ==
  (JqlAtToken /\ entryNo' = entryNo + 1)
    => formattedQuery' = TextBefore(formattedQuery, C13_Token(key))
                         \o formattedValue'
                         \o TextAfter(formattedQuery, C13_Token(key))

\* C26: processing an entry whose token occurs in the current string yields
\* the text before the first occurrence, the formatted value character for
\* character, and the text after the occurrence, for every value.
C26_ValueInsertedLiterally == [][C26_Step]_vars

\* the formatted value holds none of the patterns "$$", "$&", "$" backquote
\* and "$'"
C27_NoPattern(v) ==
  LET f == C14_Formatted(v)
  IN  \A k \in 1..(Len(f) - 1) : ~(f[k] = "$" /\ f[k + 1] \in {"$", "&", BQ, "'"})

\* one entry applied to a string: the leftmost occurrence of its token, if
\* there is one, gives way to the formatted value
C27_Apply(str, e) ==
  IF Includes(str, C13_Token(e.key))
  THEN TextBefore(str, C13_Token(e.key)) \o C14_Formatted(e.value)
       \o TextAfter(str, C13_Token(e.key))
  ELSE str

\* the entries applied one after another, in their order, each to the result
\* of those before it
RECURSIVE C27_ApplyAll(_, _)
C27_ApplyAll(str, es) ==
  IF es = <<>> THEN str ELSE C27_ApplyAll(C27_Apply(str, Head(es)), Tail(es))

\* C27: after n entries the string is the template with the first n entries
\* of the mapping applied one after another in iteration order, each to the
\* string the earlier ones produced (so a token an earlier value brought in
\* is replaced by a later entry), and that string is returned.
C27_EntriesInOrder ==
  (\A e \in 1..Len(params) : C27_NoPattern(params[e].value))
    => /\ jqlPc = "loop" => formattedQuery = C27_ApplyAll(query, SubSeq(params, 1, entryNo))
       /\ jqlPc = "done" => jqlOut = C27_ApplyAll(query, params)

\* the value of k brings in the token of j, which the entry of j then
\* replaces; with the two entries in the other order the token stays
C27_Witness ==
  /\ jqlPc = "done"
  /\ query = C13_Token(<<"k">>)
  /\ params = <<Entry(<<"k">>, StringValue(C13_Token(<<"j">>))),
                Entry(<<"j">>, StringValue(<<"a">>))>>
  /\ jqlOut = <<"a">>
  /\ C27_ApplyAll(query, <<params[2], params[1]>>) = C13_Token(<<"j">>)

(***************************************************************************)
(* Every source line is accounted for.  The fence lines are those the loop *)
(* recognises (see C3).                                                    *)
(***************************************************************************)
\* line k lies in a fenced region: an odd number of fence lines precede it
C28_Inside(k) ==
  Cardinality({f \in 1..(k - 1) : IsFence(Trim(lines[f]))}) % 2 = 1

C28_FenceLine(k) == IsFence(Trim(lines[k]))

\* the non-blank lines outside the fenced regions that are no fence lines
C28_OutsideLines ==
  {k \in 1..Len(lines) : /\ ~C28_FenceLine(k)
                         /\ ~C28_Inside(k)
                         /\ ~C6_IsBlankLine(lines[k])}

\* the lines of the fenced regions
C28_InsideLines == {k \in 1..Len(lines) : ~C28_FenceLine(k) /\ C28_Inside(k)}

RECURSIVE C28_Units(_)
\* the number of paragraphs, headings and list items of a sequence of blocks
C28_Units(bs) ==
  IF bs = <<>> THEN 0
  ELSE (IF IsList(Head(bs)) THEN Len(Head(bs).content)
        ELSE IF Head(bs).type \in {"paragraph", "heading"} THEN 1
        ELSE 0)
       + C28_Units(Tail(bs))

\* the source lines of the paragraphs, headings and list items, in document order
C28_UnitLines ==
  Flatten([k \in 1..Len(content) |->
             IF content[k].type = "codeBlock" THEN <<>> ELSE origin[k]])

\* the source lines between the fences of the k-th code block
C28_BlockLines(k) ==
  LET fs == FenceLines(lines)
  IN  SubSeq(lines, fs[2 * k - 1] + 1, fs[2 * k] - 1)

C28_NoEmptyList == \A k \in 1..Len(content) : IsList(content[k]) => Len(content[k].content) >= 1

C28_Returned ==
  (pc = "done" /\ lines # <<>> /\ Len(FenceLines(lines)) % 2 = 0)
    => /\ C28_Units(doc.content) = Cardinality(C28_OutsideLines)
       /\ Len(C28_UnitLines) = Cardinality(C28_OutsideLines)
       /\ {C28_UnitLines[j] : j \in 1..Len(C28_UnitLines)} = C28_OutsideLines
       /\ LET bs == BlocksOfType(doc, "codeBlock")
          IN  /\ Len(bs) = Len(FenceLines(lines)) \div 2
              /\ \A k \in 1..Len(bs) :
                    /\ bs[k].content[1].text = Join(C28_BlockLines(k))
                    /\ \A n \in 1..Len(C28_BlockLines(k)) :
                          FenceLines(lines)[2 * k - 1] + n \in C28_InsideLines

\* a blank line or a fence line adds no paragraph, heading or list item
C28_Step ==
  (InLoop /\ (C28_FenceLine(i + 1) \/ (~inCodeBlock /\ C6_IsBlankLine(line))))
    => C28_Units(content') = C28_Units(content)

\* C28: for a non-blank input whose fences are all closed, the paragraphs,
\* headings and list items of the returned document come one from each
\* non-blank non-fence line outside the fenced regions and from no other line,
\* each code block's text is the lines of its fenced region, one text line
\* for each, blank and fence lines add nothing else, and no list block is
\* ever empty.
C28_EveryLineAccounted == [](C28_NoEmptyList /\ C28_Returned) /\ [][C28_Step]_vars

\* a paragraph line, then a closed code block with nothing inside
C28_Witness ==
  /\ pc = "done"
  /\ Len(lines) = 3
  /\ FenceLines(lines) = <<2, 3>>
  /\ C28_OutsideLines = {1}
  /\ doc.content[1].type = "paragraph"
  /\ Len(BlocksOfType(doc, "codeBlock")) = 1

(***************************************************************************)
(* The runs parseInlineFormatting returns.                                 *)
(***************************************************************************)
C29_IsPlain(run) == "marks" \notin DOMAIN run

\* C29: for a non-empty line parseInlineFormatting returns no run with empty
\* text and no two adjacent plain runs, and the whole-line fallback is taken
\* only for the empty line.
C29_NoEmptyRun ==
  inlPc = "done"
    => /\ inlText # <<>>
            => /\ \A k \in 1..Len(inlOut) : inlOut[k].text # <<>>
               /\ \A k \in 1..(Len(inlOut) - 1) :
                     ~(C29_IsPlain(inlOut[k]) /\ C29_IsPlain(inlOut[k + 1]))
       /\ (inlSt.result = <<>> /\ inlSt.currentText = <<>>) => inlText = <<>>

(***************************************************************************)
(* bulkUpdateIssues.                                                       *)
(***************************************************************************)
\* the request is the last step of its key: the transition, or the update
\* when no status is given
C30_LastStep(r) ==
  r.request = "transitionIssue" \/ (r.request = "updateIssue" /\ ~status)

\* the keys whose processing has ended, in the order in which it ended, each
\* with its outcome: failed at the first request that failed, succeeded when
\* its last step succeeded
RECURSIVE C30_Ended(_)
C30_Ended(rs) ==
  IF rs = <<>> THEN <<>>
  ELSE (IF Head(rs).request = "getUserAccountId" THEN <<>>
        ELSE IF ~Head(rs).ok THEN <<[key |-> Head(rs).key, ok |-> FALSE]>>
        ELSE IF C30_LastStep(Head(rs)) THEN <<[key |-> Head(rs).key, ok |-> TRUE]>>
        ELSE <<>>)
       \o C30_Ended(Tail(rs))

C30_Keys(es) == [k \in 1..Len(es) |-> es[k].key]

C30_Found == SelectSeq(requests, LAMBDA r : r.request = "findIssue")

C30_Returned ==
  bulkPc = "done"
    => LET ended == C30_Ended(requests)
       IN  /\ C30_Keys(ended) = issueKeys
           /\ C30_Keys(C30_Found) = issueKeys
           /\ bulkOut.successes = C30_Keys(SelectSeq(ended, LAMBDA e : e.ok))
           /\ [k \in 1..Len(bulkOut.failures) |-> bulkOut.failures[k].issueKey]
                = C30_Keys(SelectSeq(ended, LAMBDA e : ~e.ok))
           /\ Len(bulkOut.successes) + Len(bulkOut.failures) = Len(issueKeys)
           /\ bulkOut.message = <<"Updated", Len(bulkOut.successes), "of", Len(issueKeys),
                                  "issues successfully">>

\* a call that has not returned can go on, whatever failed before
C30_GoesOn == bulkPc \in {"start", "findIssue", "updateIssue", "transitionIssue"}
                => ENABLED NextBulk

\* a request for a key that fails records the key in failures and leaves the
\* loop at the next key
C30_FailureStep ==
  (/\ Len(requests') = Len(requests) + 1
   /\ requests'[Len(requests')].request # "getUserAccountId"
   /\ ~requests'[Len(requests')].ok)
    => /\ Len(failures') = Len(failures) + 1
       /\ SubSeq(failures', 1, Len(failures)) = failures
       /\ failures'[Len(failures')].issueKey = issueKeys[keyNo + 1]
       /\ successes' = successes
       /\ keyNo' = keyNo + 1
       /\ bulkPc' = "findIssue"

\* C30: the keys are processed one at a time in input order; a failed
\* findIssue, updateIssue or status transition records its key in failures
\* and the loop goes on with the next key; on return every occurrence of a
\* key is in exactly one of successes and failures, both in input order, a
\* key is in successes only if all its steps succeeded, and the message gives
\* the number of successes and the number of keys.
C30_FailuresIsolated == [](C30_Returned /\ C30_GoesOn) /\ [][C30_FailureStep]_vars

\* the first key fails at findIssue, the second succeeds, the third (the
\* first key again) fails at its status transition
C30_Witness ==
  /\ bulkPc = "done"
  /\ issueKeys = <<"A-1", "B-2", "A-1">>
  /\ status
  /\ bulkOut.successes = <<"B-2">>
  /\ Len(bulkOut.failures) = 2
  /\ requests[Len(requests)] = [request |-> "transitionIssue", key |-> "A-1", ok |-> FALSE]
  /\ ~requests[1].ok /\ requests[1].request = "findIssue"

====
